---- MODULE Spec2Model ----
(***************************************************************************)
(* A model of the dispatch pipeline of the WhatsApp <-> Geneline-X bridge: *)
(* the per-chat queues and admission scan of QueueManager                  *)
(* (src/queue/manager.ts), the RateLimiter (utils/rate-limiter.ts), the    *)
(* MessageWorker boundary (src/queue/worker.ts) and the retry loop of      *)
(* GenelineClient / IngestClient (src/geneline), the job poll of            *)
(* IngestClient.waitForJobCompletion and the ConversationHistory cache     *)
(* (src/agent/conversation-history.ts).                                    *)
(*                                                                         *)
(* Time.  RateLimiter stores lastMessageTime = Date.now() and only ever    *)
(* reads the difference Date.now() - lastMessageTime, which it compares    *)
(* with rateLimitMs.  The model stores that difference ("age"), saturated  *)
(* at rateLimitMs, and a pending setTimeout as the delay that remains.     *)
(* Tick lets one unit of time pass.  The clock is taken to be              *)
(* non-decreasing.                                                         *)
(***************************************************************************)
EXTENDS Integers, Sequences, FiniteSets

\* ------------------------------------------------------------------ bounds
MaxMessages == 3
MaxRateLimit == 2
MaxConcurrencyCfg == 2
MaxTimers == 2
MaxAdminMessages == 3
MaxJobs == 1
MaxChunks == 2
MaxAgentChunks == 1
MaxPolls == 3
MaxAdds == 3
MaxHistoryLimit == 2
MaxCachedChats == 2

\* GenelineClient / IngestClient: private maxRetries, baseDelay
maxRetries == 3
baseDelay == 1000

\* config.geneline.ingestPollIntervalMs when INGEST_POLL_INTERVAL_MS is not set
pollInterval == 5000

\* worker.ts 213: the max chats of the ConversationHistory
DefaultMaxChats == 1000

\* config.agent.maxIterations when AGENT_MAX_ITERATIONS is not set
DefaultMaxIterations == 5

\* config.agent.conversationHistoryLimit when
\* AGENT_CONVERSATION_HISTORY_LIMIT is not set
DefaultHistoryLimit == 10

\* The conversations (chatId) of the model.
Chats == {"a@c.us", "b@c.us"}
MessageIds == 1..MaxMessages

\* QueuedMessage: the fields the queue reads (chatId) and the identity of the
\* message (messageId, here the number of the message within its chat).
QueuedMessage == [chatId : Chats, messageId : MessageIds]

VARIABLES
    \* ---- QueueManager
    queues,          \* Map<string, QueuedMessage[]>: the array of each key
    order,           \* the keys of the Map, in insertion order
    activeWorkers,   \* private activeWorkers
    stats,           \* QueueStats
    maxConcurrency,  \* config.queue.maxConcurrency
    \* ---- RateLimiter
    chatLimits,      \* Map<string, RateLimitEntry>
    rateLimitMs,     \* config.queue.perChatRateLimitMs
    \* ---- the event loop
    inflight,        \* processMessage promises that have not settled
    timers,          \* pending setTimeout(() => processNext(), delay)
    \* ---- history (observation only)
    probe,           \* what is observed: "pacing" (sinceAdmit .. lastGap),
                     \* "calls" (lastCall) or "none" of the two
    enqLog,          \* per chat: how many messages were enqueued (ids 1..n, in order)
    dispLog,         \* per chat: the messages handed to processMessage, in order
    cleared,         \* some clearChat / clearAll has been called
    sinceAdmit,      \* per chat: time since its last admission (-1: none)
    sinceDone,       \* per chat: time since its last successful completion
    sinceEnd,        \* per chat: time since its last completion of any outcome
    lastGap,         \* the three of them as the most recent admission found them
    lastCall,        \* clearChat(id), or clearChat(id); enqueue(id, m), when that
                     \* is what was called last, with nothing run in between
    \* ---- one call of MessageWorker.processMessage or of IngestClient.ingestFile
    call,            \* "none", or the call made: "direct", "agent", "ingest"
    job,             \* the message passed to processMessage
    wpc,             \* what the call awaits
    sends,           \* history: the sendMessage calls of the agent loop / worker
    attempt,         \* the attempt parameter of sendWithRetry / ingestFileWithRetry
    posts,           \* history: the client.post calls of the current send
    errors,          \* history: the error of each failed post of the current send
    slept,           \* history: the backoff slept in the current send, in ms
    chunks,          \* the chunks array of the streamed body
    toolCallsCount,  \* AgentLoop.run: toolCallsCount
    delivered,       \* history: the calls of the response sender
    fallbackCalls,   \* history: the calls of the fallback sender
    sendResult,      \* the promise of sendMessage / ingestFile
    outcome,         \* the promise processMessage returned
    \* ---- AgentLoop
    maxIterations,   \* AgentLoop.maxIterations
    phase,           \* which sendMessage run awaits: "first", "tool", "followup"
    iterations,      \* run: iterations
    toolRuns,        \* history: the executeTool calls
    history,         \* ConversationHistory of the chat of the message
    runResult,       \* the AgentResponse run returned
    \* ---- IngestClient.waitForJobCompletion
    ppc,             \* what waitForJobCompletion awaits
    polls,           \* history: the getJobStatus calls
    statuses,        \* history: the status each answered poll reported
    waited,          \* history: the time slept between polls, in ms
    \* ---- ConversationHistory
    maxMessagesPerChat,  \* private maxMessagesPerChat
    maxChats,        \* the max option of the LRUCache
    cache,           \* LRUCache<string, Message[]>: the entry of each key
    lru,             \* the keys of the cache, least recently used first
    added,           \* history: per chat, every message added
    sinceDrop        \* history: per chat, the messages added since the cache
                     \* last dropped its entry

qvars == <<probe, queues, order, activeWorkers, stats, maxConcurrency, chatLimits,
           rateLimitMs, inflight, timers, enqLog, dispLog, cleared,
           sinceAdmit, sinceDone, sinceEnd, lastGap, lastCall>>

wvars == <<call, job, wpc, sends, attempt, posts, errors, slept, chunks,
           toolCallsCount, delivered, fallbackCalls, sendResult, outcome,
           maxIterations, phase, iterations, toolRuns, history, runResult>>

pvars == <<ppc, polls, statuses, waited>>

hvars == <<maxMessagesPerChat, maxChats, cache, lru, added, sinceDrop>>

xvars == <<pvars, hvars>>

vars == <<qvars, wvars, xvars>>

\* ------------------------------------------------------------- RateLimiter

NoEntry == [present |-> FALSE, age |-> 0, messageCount |-> 0]

\* checkRateLimit with the comparison with rateLimitMs left out.
checkRateLimitNoWait(limits, chatId) ==
    LET entry == limits[chatId] IN
    [delay  |-> 0,
     limits |-> [limits EXCEPT ![chatId] =
                    [present |-> TRUE, age |-> 0,
                     messageCount |-> IF entry.present
                                      THEN entry.messageCount + 1 ELSE 1]]]

\* checkRateLimit that marks the admission also when it answers with a wait.
checkRateLimitMarksOnWait(limits, chatId) ==
    LET entry == limits[chatId] IN
    IF ~entry.present
    THEN [delay  |-> 0,
          limits |-> [limits EXCEPT ![chatId] =
                         [present |-> TRUE, age |-> 0, messageCount |-> 1]]]
    ELSE [delay  |-> IF entry.age < rateLimitMs
                     THEN rateLimitMs - entry.age ELSE 0,
          limits |-> [limits EXCEPT ![chatId] =
                         [present |-> TRUE, age |-> 0,
                          messageCount |-> entry.messageCount + 1]]]

\* checkRateLimit that lets a message pass one unit of time early.
checkRateLimitEarly(limits, chatId) ==
    LET entry == limits[chatId] IN
    IF ~entry.present
    THEN [delay  |-> 0,
          limits |-> [limits EXCEPT ![chatId] =
                         [present |-> TRUE, age |-> 0, messageCount |-> 1]]]
    ELSE IF entry.age + 1 < rateLimitMs
    THEN [delay |-> rateLimitMs - entry.age - 1, limits |-> limits]
    ELSE [delay  |-> 0,
          limits |-> [limits EXCEPT ![chatId] =
                         [present |-> TRUE, age |-> 0,
                          messageCount |-> entry.messageCount + 1]]]

\* RateLimiter.checkRateLimit(chatId): the delay returned and the map after.
checkRateLimit(limits, chatId) ==
    LET entry == limits[chatId] IN
    IF ~entry.present
    THEN [delay  |-> 0,
          limits |-> [limits EXCEPT ![chatId] =
                         [present |-> TRUE, age |-> 0, messageCount |-> 1]]]
    ELSE IF entry.age < rateLimitMs
    THEN [delay |-> rateLimitMs - entry.age, limits |-> limits]
    ELSE [delay  |-> 0,
          limits |-> [limits EXCEPT ![chatId] =
                         [present |-> TRUE, age |-> 0,
                          messageCount |-> entry.messageCount + 1]]]

\* RateLimiter.recordMessage(chatId)
recordMessage(limits, chatId) ==
    LET entry == limits[chatId] IN
    IF entry.present
    THEN [limits EXCEPT ![chatId] =
             [present |-> TRUE, age |-> 0,
              messageCount |-> entry.messageCount + 1]]
    ELSE [limits EXCEPT ![chatId] =
             [present |-> TRUE, age |-> 0, messageCount |-> 1]]

\* ------------------------------------------------------------ QueueManager

RECURSIVE SumLengths(_, _)
SumLengths(qs, cs) ==
    IF cs = {} THEN 0
    ELSE LET c == CHOOSE x \in cs : TRUE
         IN Len(qs[c]) + SumLengths(qs, cs \ {c})

\* updateQueueLength that leaves the statistic as it is.
updateQueueLengthStale(m) == m

\* QueueManager.updateQueueLength
updateQueueLength(m) ==
    [m EXCEPT !.stats.currentQueueLength = SumLengths(m.queues, Chats)]

\* The pending timers: how many there are for each delay that remains.
Delays == 0..MaxRateLimit

RECURSIVE NumTimersUpTo(_, _)
NumTimersUpTo(t, d) == IF d < 0 THEN 0 ELSE t[d] + NumTimersUpTo(t, d - 1)

NumTimers(t) == NumTimersUpTo(t, MaxRateLimit)

\* A scan that schedules no timer for a rate-limited conversation.
setTimeoutDropped(m, delay) == m

\* setTimeout(() => this.processNext(), delay)
setTimeout(m, delay) == [m EXCEPT !.timers[delay] = @ + 1]

\* The manager's state as one record, so that a handler is a function of it.
Mgr == [queues |-> queues, order |-> order, activeWorkers |-> activeWorkers,
        stats |-> stats, chatLimits |-> chatLimits, inflight |-> inflight,
        timers |-> timers, dispLog |-> dispLog, sinceAdmit |-> sinceAdmit,
        sinceDone |-> sinceDone, sinceEnd |-> sinceEnd, lastGap |-> lastGap]

\* dispatch without the update of stats.activeWorkers.
dispatchStatsStale(m, chatId) ==
    LET message == Head(m.queues[chatId])
        m1 == updateQueueLength([m EXCEPT !.queues[chatId] = Tail(@)])
    IN [m1 EXCEPT !.activeWorkers = @ + 1,
                  !.inflight = @ \cup {message},
                  !.dispLog[chatId] = Append(@, message.messageId),
                  !.lastGap = [admit |-> m.sinceAdmit[chatId],
                               done |-> m.sinceDone[chatId],
                               end |-> m.sinceEnd[chatId]],
                  !.sinceAdmit[chatId] = 0]

\* manager.ts 98-127: dequeue the head of chatId's queue and start processing.
dispatch(m, chatId) ==
    LET message == Head(m.queues[chatId])
        m1 == updateQueueLength([m EXCEPT !.queues[chatId] = Tail(@)])
    IN [m1 EXCEPT !.activeWorkers = @ + 1,
                  !.stats.activeWorkers = m.activeWorkers + 1,
                  !.inflight = @ \cup {message},
                  !.dispLog[chatId] = Append(@, message.messageId),
                  !.lastGap = [admit |-> m.sinceAdmit[chatId],
                               done |-> m.sinceDone[chatId],
                               end |-> m.sinceEnd[chatId]],
                  !.sinceAdmit[chatId] = 0]

\* The for loop with a break in place of the continue after setTimeout.
RECURSIVE scanStopsAtLimited(_, _)
scanStopsAtLimited(m, i) ==
    IF i > Len(m.order) THEN m
    ELSE LET chatId == m.order[i] IN
         IF Len(m.queues[chatId]) = 0 THEN scanStopsAtLimited(m, i + 1)
         ELSE LET r == checkRateLimit(m.chatLimits, chatId) IN
              IF r.delay > 0
              THEN setTimeout(m, r.delay)
              ELSE dispatch([m EXCEPT !.chatLimits = r.limits], chatId)

\* manager.ts 80-128: the for loop over this.queues.entries(), from the i-th key.
RECURSIVE scan(_, _)
scan(m, i) ==
    IF i > Len(m.order) THEN m
    ELSE LET chatId == m.order[i] IN
         IF Len(m.queues[chatId]) = 0 THEN scan(m, i + 1)
         ELSE LET r == checkRateLimit(m.chatLimits, chatId) IN
              IF r.delay > 0
              THEN scan(setTimeout(m, r.delay), i + 1)
              ELSE dispatch([m EXCEPT !.chatLimits = r.limits], chatId)

\* processNext without the capacity check.
processNextNoCapacityCheck(m) == scan(m, 1)

\* processNext with > in place of >= in the capacity check.
processNextOneOver(m) ==
    IF m.activeWorkers > maxConcurrency THEN m ELSE scan(m, 1)

\* QueueManager.processNext
processNext(m) ==
    IF m.activeWorkers >= maxConcurrency THEN m ELSE scan(m, 1)

\* enqueue with queue.unshift(message) in place of queue.push(message).
pushFront(m, message) ==
    LET c == message.chatId
        m1 == [m EXCEPT !.queues[c] = <<message>> \o @,
                        !.order = IF \E i \in 1..Len(m.order) : m.order[i] = c
                                  THEN @ ELSE Append(@, c),
                        !.stats.totalQueued = @ + 1]
    IN updateQueueLength(m1)

\* QueueManager.enqueue, up to the call of processNext
push(m, message) ==
    LET c == message.chatId
        m1 == [m EXCEPT !.queues[c] = Append(@, message),
                        !.order = IF \E i \in 1..Len(m.order) : m.order[i] = c
                                  THEN @ ELSE Append(@, c),
                        !.stats.totalQueued = @ + 1]
    IN updateQueueLength(m1)

\* QueueManager.enqueue
enqueue(m, message) == processNext(push(m, message))

RemoveKey(s, c) == SelectSeq(s, LAMBDA x : x # c)

\* clearChat that empties nothing.
clearChatKeepsQueue(m, chatId) == updateQueueLength(m)

\* QueueManager.clearChat
clearChat(m, chatId) ==
    updateQueueLength([m EXCEPT !.queues[chatId] = <<>>,
                                !.order = RemoveKey(@, chatId)])

\* clearAll that also drops the messages in flight.
clearAllCancels(m) ==
    updateQueueLength([m EXCEPT !.queues = [c \in Chats |-> <<>>],
                                !.order = <<>>,
                                !.inflight = {},
                                !.activeWorkers = 0,
                                !.stats.activeWorkers = 0])

\* QueueManager.clearAll
clearAll(m) ==
    updateQueueLength([m EXCEPT !.queues = [c \in Chats |-> <<>>],
                                !.order = <<>>])

\* The completion handlers without the processNext() of .finally.
onResolvedNoPump(m, message) ==
    LET c == message.chatId
        m1 == [m EXCEPT !.stats.totalProcessed = @ + 1,
                        !.chatLimits = recordMessage(@, c),
                        !.sinceDone[c] = 0,
                        !.sinceEnd[c] = 0,
                        !.inflight = @ \ {message}]
    IN [m1 EXCEPT !.activeWorkers = @ - 1,
                  !.stats.activeWorkers = m1.activeWorkers - 1]

\* The .then handler without rateLimiter.recordMessage(chatId).
onResolvedNoRecord(m, message) ==
    LET c == message.chatId
        m1 == [m EXCEPT !.stats.totalProcessed = @ + 1,
                        !.sinceDone[c] = 0,
                        !.sinceEnd[c] = 0,
                        !.inflight = @ \ {message}]
        m2 == [m1 EXCEPT !.activeWorkers = @ - 1,
                         !.stats.activeWorkers = m1.activeWorkers - 1]
    IN processNext(m2)

\* manager.ts 107-110 and 118-124: .then and .finally of a resolved promise
onResolved(m, message) ==
    LET c == message.chatId
        m1 == [m EXCEPT !.stats.totalProcessed = @ + 1,
                        !.chatLimits = recordMessage(@, c),
                        !.sinceDone[c] = 0,
                        !.sinceEnd[c] = 0,
                        !.inflight = @ \ {message}]
        m2 == [m1 EXCEPT !.activeWorkers = @ - 1,
                         !.stats.activeWorkers = m1.activeWorkers - 1]
    IN processNext(m2)

\* The .catch and .finally handlers without the processNext() of .finally.
onRejectedNoPump(m, message) ==
    LET c == message.chatId
        m1 == [m EXCEPT !.stats.totalFailed = @ + 1,
                        !.sinceEnd[c] = 0,
                        !.inflight = @ \ {message}]
    IN [m1 EXCEPT !.activeWorkers = @ - 1,
                  !.stats.activeWorkers = m1.activeWorkers - 1]

\* A .catch handler that puts the failed message back at the head of its queue.
onRejectedRequeue(m, message) ==
    LET c == message.chatId
        m1 == [m EXCEPT !.stats.totalFailed = @ + 1,
                        !.sinceEnd[c] = 0,
                        !.inflight = @ \ {message},
                        !.queues[c] = <<message>> \o @]
        m2 == [m1 EXCEPT !.activeWorkers = @ - 1,
                         !.stats.activeWorkers = m1.activeWorkers - 1]
    IN processNext(updateQueueLength(m2))

\* A .catch handler that calls rateLimiter.recordMessage(chatId) as .then does.
onRejectedRecords(m, message) ==
    LET c == message.chatId
        m1 == [m EXCEPT !.stats.totalFailed = @ + 1,
                        !.chatLimits = recordMessage(@, c),
                        !.sinceEnd[c] = 0,
                        !.inflight = @ \ {message}]
        m2 == [m1 EXCEPT !.activeWorkers = @ - 1,
                         !.stats.activeWorkers = m1.activeWorkers - 1]
    IN processNext(m2)

\* manager.ts 111-124: .catch and .finally of a rejected promise
onRejected(m, message) ==
    LET c == message.chatId
        m1 == [m EXCEPT !.stats.totalFailed = @ + 1,
                        !.sinceEnd[c] = 0,
                        !.inflight = @ \ {message}]
        m2 == [m1 EXCEPT !.activeWorkers = @ - 1,
                         !.stats.activeWorkers = m1.activeWorkers - 1]
    IN processNext(m2)

\* manager.ts 94: a timer whose delay has elapsed runs processNext.
onTimer(m) == processNext([m EXCEPT !.timers[0] = @ - 1])

\* The state after a handler has run (the handler's result is computed once).
Commit(result) ==
    \E m \in {result} :
        /\ NumTimers(m.timers) <= MaxTimers
        /\ queues' = m.queues
        /\ order' = m.order
        /\ activeWorkers' = m.activeWorkers
        /\ stats' = m.stats
        /\ chatLimits' = m.chatLimits
        /\ inflight' = m.inflight
        /\ timers' = m.timers
        /\ dispLog' = m.dispLog
        /\ IF probe = "pacing"
           THEN /\ sinceAdmit' = m.sinceAdmit
                /\ sinceDone' = m.sinceDone
                /\ sinceEnd' = m.sinceEnd
                /\ lastGap' = m.lastGap
           ELSE UNCHANGED <<sinceAdmit, sinceDone, sinceEnd, lastGap>>
        /\ UNCHANGED <<maxConcurrency, rateLimitMs, probe>>


\* --------------------------------------------------------------- the queue

\* lastCall when the last call or event is not part of a clearChat; enqueue pair.
OtherCall == [op |-> "other", chatId |-> "", messageId |-> 0, dropped |-> 0]

\* The observation of the last call, when probe = "calls".
Called(made) == lastCall' = IF probe = "calls" THEN made ELSE OtherCall

QInit ==
    /\ queues = [c \in Chats |-> <<>>]
    /\ order = <<>>
    /\ activeWorkers = 0
    /\ stats = [totalQueued |-> 0, totalProcessed |-> 0, totalFailed |-> 0,
                currentQueueLength |-> 0, activeWorkers |-> 0]
    /\ maxConcurrency \in {1, MaxConcurrencyCfg}
    /\ chatLimits = [c \in Chats |-> NoEntry]
    /\ rateLimitMs \in {0, MaxRateLimit}
    /\ inflight = {}
    /\ timers = [d \in Delays |-> 0]
    /\ enqLog = [c \in Chats |-> 0]
    /\ dispLog = [c \in Chats |-> <<>>]
    /\ cleared = FALSE
    /\ sinceAdmit = [c \in Chats |-> -1]
    /\ sinceDone = [c \in Chats |-> -1]
    /\ sinceEnd = [c \in Chats |-> -1]
    /\ lastGap = [admit |-> -1, done |-> -1, end |-> -1]
    /\ lastCall = OtherCall

\* handlers.ts 147: the channel binding enqueues an accepted inbound message.
Enqueue(c, limit) ==
    /\ stats.totalQueued < limit
    /\ LET message == [chatId |-> c, messageId |-> enqLog[c] + 1] IN
       /\ Commit(enqueue(Mgr, message))
       /\ enqLog' = [enqLog EXCEPT ![c] = message.messageId]
       /\ Called(IF lastCall.op = "clearChat" /\ lastCall.chatId = c
                      THEN [op |-> "clearChat;enqueue", chatId |-> c,
                            messageId |-> message.messageId,
                            dropped |-> lastCall.dropped]
                      ELSE OtherCall)
    /\ UNCHANGED cleared
    /\ UNCHANGED <<wvars, xvars>>

\* A deferred scan: a setTimeout callback fires.
TimerFire ==
    /\ timers[0] > 0
    /\ Commit(onTimer(Mgr))
    /\ Called(OtherCall)
    /\ UNCHANGED <<enqLog, cleared>>
    /\ UNCHANGED <<wvars, xvars>>

\* The promise of processMessage(message) resolves.
CompleteOk(message) ==
    /\ message \in inflight
    /\ Commit(onResolved(Mgr, message))
    /\ Called(OtherCall)
    /\ UNCHANGED <<enqLog, cleared>>
    /\ UNCHANGED <<wvars, xvars>>

\* The promise of processMessage(message) rejects.
CompleteFail(message) ==
    /\ message \in inflight
    /\ Commit(onRejected(Mgr, message))
    /\ Called(OtherCall)
    /\ UNCHANGED <<enqLog, cleared>>
    /\ UNCHANGED <<wvars, xvars>>

\* routes.ts: an administrative clearChat(chatId)
ClearChat(c) ==
    /\ Commit(clearChat(Mgr, c))
    /\ cleared' = TRUE
    /\ Called([op |-> "clearChat", chatId |-> c, messageId |-> 0,
                dropped |-> Len(queues[c])])
    /\ UNCHANGED enqLog
    /\ UNCHANGED <<wvars, xvars>>

\* routes.ts 172: POST /queue/clear
ClearAll ==
    /\ Commit(clearAll(Mgr))
    /\ cleared' = TRUE
    /\ Called(OtherCall)
    /\ UNCHANGED enqLog
    /\ UNCHANGED <<wvars, xvars>>

Older(t) == IF t < 0 THEN t ELSE IF t < rateLimitMs THEN t + 1 ELSE t

\* One unit of time passes on the clock Date.now() reads.
Tick ==
    /\ chatLimits' = [c \in Chats |->
                        [chatLimits[c] EXCEPT !.age =
                            IF chatLimits[c].present THEN Older(@) ELSE @]]
    /\ timers' = [d \in Delays |->
                    IF d = 0 THEN timers[0] + (IF MaxRateLimit >= 1 THEN timers[1] ELSE 0)
                    ELSE IF d < MaxRateLimit THEN timers[d + 1] ELSE 0]
    /\ IF probe = "pacing"
       THEN /\ sinceAdmit' = [c \in Chats |-> Older(sinceAdmit[c])]
            /\ sinceDone' = [c \in Chats |-> Older(sinceDone[c])]
            /\ sinceEnd' = [c \in Chats |-> Older(sinceEnd[c])]
       ELSE UNCHANGED <<sinceAdmit, sinceDone, sinceEnd>>
    /\ UNCHANGED <<probe, queues, order, activeWorkers, stats, maxConcurrency,
                   rateLimitMs, inflight, enqLog, dispLog, cleared, lastGap,
                   lastCall>>
    /\ UNCHANGED <<wvars, xvars>>

\* ------------------------------------- GenelineClient and IngestClient

\* The AxiosError a failed post yields: without a response (network error,
\* timeout), or with the status the service answered.
Statuses == {404, 429, 503}
AxiosErrors == {[response |-> FALSE, status |-> 0]}
                   \cup {[response |-> TRUE, status |-> s] : s \in Statuses}

\* shouldRetry with the cap on attempt one later.
shouldRetryLateCap(error, n) ==
    IF n > maxRetries THEN FALSE
    ELSE IF ~error.response THEN TRUE
    ELSE error.status = 429 \/ (error.status >= 500 /\ error.status < 600)

\* shouldRetry without the test of the status.
shouldRetryAnyStatus(error, n) ==
    IF n >= maxRetries THEN FALSE ELSE TRUE

\* GenelineClient.shouldRetry, IngestClient.shouldRetry
shouldRetry(error, n) ==
    IF n >= maxRetries THEN FALSE
    ELSE IF ~error.response THEN TRUE
    ELSE error.status = 429 \/ (error.status >= 500 /\ error.status < 600)

\* calculateBackoff without the exponent.
calculateBackoffConstant(n) == baseDelay

\* calculateBackoff: baseDelay * Math.pow(2, attempt)
calculateBackoff(n) == baseDelay * (2 ^ n)

\* ----------------------------------------------------------- ToolRegistry

\* The chunks a streamed body is made of: plain text, or the JSON of a tool
\* call. The joined body is the sequence of its chunks.
ToolCallJson == "{\"tool\":\"search_knowledge\",\"parameters\":{\"query\":\"malaria\"}}"
WebSearchJson == "{\"tool\":\"web_search\",\"parameters\":{\"query\":\"malaria\"}}"
UnknownToolJson == "{\"tool\":\"lookup\",\"parameters\":{}}"
ToolJsons == {ToolCallJson, WebSearchJson, UnknownToolJson}
DirectChunks == {"Hello", ToolCallJson}
Chunks == {"Hello"} \cup ToolJsons

\* The tool field of the JSON of a tool call.
ToolOf(json) ==
    IF json = ToolCallJson THEN "search_knowledge"
    ELSE IF json = WebSearchJson THEN "web_search"
    ELSE "lookup"

\* JSON.stringify of the tool call parsed.
ToolJson(tool) == CHOOSE json \in ToolJsons : ToolOf(json) = tool

\* The tools initializeAgent registers.
Registered == {"search_knowledge", "web_search"}

NoToolCall == "null"

\* ToolRegistry.parseToolCall: the text from the first "{" to the last "}"
\* around "tool" is parsed as JSON; text that does not parse yields null.
parseToolCall(response) ==
    LET at == {i \in 1..Len(response) : response[i] \in ToolJsons} IN
    IF Cardinality(at) = 1
    THEN ToolOf(response[CHOOSE i \in at : TRUE])
    ELSE NoToolCall

ToolNotFound == <<"Error: Tool not found">>
ToolExecutionFailed == <<"Error: Tool execution failed">>
SearchFailed == <<"Error searching knowledge base">>
WebResult == <<"web result">>

\* executeTool that lets the error of the tool pass.
executeToolThrows(tool, raises) ==
    IF tool \notin Registered THEN [threw |-> TRUE, result |-> ToolNotFound]
    ELSE IF raises THEN [threw |-> TRUE, result |-> ToolExecutionFailed]
    ELSE [threw |-> FALSE, result |-> WebResult]

\* ToolRegistry.executeTool, for a tool that answers without a completion
\* call: an unregistered tool and a tool that raises yield an error text.
executeTool(tool, raises) ==
    IF tool \notin Registered THEN [threw |-> FALSE, result |-> ToolNotFound]
    ELSE IF raises THEN [threw |-> FALSE, result |-> ToolExecutionFailed]
    ELSE [threw |-> FALSE, result |-> WebResult]

\* -------------------------------------------- MessageWorker and AgentLoop

NoJob == [chatId |-> "", messageId |-> 0]

UserMessage == <<"messageText">>

\* The text of the acknowledgment handleEscalation sends.
Acknowledgment == <<"acknowledgment">>

\* The fallbackResponse of run.
Apology == <<"I apologize, but I'm having trouble processing your request.">>

NoResult == [returned |-> FALSE, response |-> <<>>, toolCallsCount |-> 0,
             iterations |-> 0, shouldEscalate |-> FALSE, checked |-> FALSE]

\* The fields a result of run has when checkForEscalation was not called:
\* shouldEscalate is undefined, which the test of processWithAgent takes as
\* false.
NoEscalationCheck == [checked |-> FALSE, shouldEscalate |-> FALSE]

\* run 207-336: checkForEscalation answers with the verdict of the detector
\* on the message of the user and on the marker in the response (or with
\* false when the detector raised).
checkForEscalation(verdict) == [checked |-> TRUE, shouldEscalate |-> verdict]

MaxIterationsCfgs == {0, 1, DefaultMaxIterations}

\* The state of AgentLoop.run.
avars == <<phase, iterations, toolRuns, toolCallsCount, history, runResult>>

\* No call of the worker or of the ingest client has been made.
WInit ==
    /\ call = "none"
    /\ job = NoJob
    /\ wpc = "idle"
    /\ sends = 0
    /\ attempt = 0
    /\ posts = 0
    /\ errors = <<>>
    /\ slept = 0
    /\ chunks = <<>>
    /\ toolCallsCount = 0
    /\ delivered = <<>>
    /\ fallbackCalls = 0
    /\ sendResult = "pending"
    /\ outcome = "pending"
    /\ maxIterations \in MaxIterationsCfgs
    /\ phase = "none"
    /\ iterations = 0
    /\ toolRuns = 0
    /\ history = <<>>
    /\ runResult = NoResult

\* The conversation history and the value run returned are kept when
\* probe = "agent".
Observed(new, old) == IF probe = "agent" THEN new ELSE old

\* history.slice(-n)
LastN(h, n) == IF Len(h) <= n THEN h ELSE SubSeq(h, Len(h) - n + 1, Len(h))

\* history.slice(0, n)
FirstN(h, n) == IF Len(h) <= n THEN h ELSE SubSeq(h, 1, n)

\* addMessage that keeps the first maxMessagesPerChat messages.
addMessageKeepsFirst(h, role, content) ==
    FirstN(Append(h, [role |-> role, content |-> content]),
           maxMessagesPerChat)

\* ConversationHistory.addMessage: push, then keep the last
\* maxMessagesPerChat messages.
addMessage(h, role, content) ==
    LastN(Append(h, [role |-> role, content |-> content]),
          maxMessagesPerChat)

\* sendMessage / ingestFile: sendWithRetry(request, 0) runs up to its post.
sendMessage ==
    /\ sends' = sends + 1
    /\ attempt' = 0
    /\ posts' = 1
    /\ errors' = <<>>
    /\ slept' = 0
    /\ chunks' = <<>>
    /\ sendResult' = "pending"
    /\ wpc' = "post"

\* The response sender called with (chatId, response), as the two-parameter
\* sendResponse of handlers.ts takes them.
sendResponseWithoutId(message, response) ==
    delivered' = Append(delivered, [chatId |-> message.chatId,
                                    messageId |-> 0,
                                    response |-> response])

\* The response sender is called with (chatId, messageId, response).
sendResponse(message, response) ==
    delivered' = Append(delivered, [chatId |-> message.chatId,
                                    messageId |-> message.messageId,
                                    response |-> response])

\* A rejection inside processDirectly or processWithAgent. processMessage
\* returns their promise from its try block without awaiting it, so its catch
\* block (and the fallback sender in it) does not run: the promise
\* processMessage returned rejects, and with it the processor of index.ts.
\* ingestFile rejects to its caller.
rejects ==
    /\ outcome' = IF call = "ingest" THEN outcome ELSE "rejected"
    /\ wpc' = IF call = "ingest" THEN "done" ELSE "returned"

\* The condition of the loop of run with <= in place of <.
loopConditionInclusive == iterations <= maxIterations

\* run 56: while (iterations < this.maxIterations)
loopCondition == iterations < maxIterations

\* Return without the addMessage of the response returned.
ReturnKeepsHistory(message, h, response, escalationCheck, acknowledges) ==
    /\ phase' = "done"
    /\ history' = history
    /\ runResult' = Observed([returned |-> TRUE, response |-> response,
                              toolCallsCount |-> toolCallsCount,
                              iterations |-> iterations,
                              shouldEscalate |->
                                  escalationCheck.shouldEscalate,
                              checked |-> escalationCheck.checked],
                             runResult)
    /\ IF escalationCheck.shouldEscalate /\ acknowledges
       THEN /\ sendResponse(message, Acknowledgment)
            /\ wpc' = "acknowledge"
       ELSE /\ sendResponse(message, response)
            /\ wpc' = "respond"

\* Return with the apology at the end of run as the response.
ReturnApology(message, h, response, escalationCheck, acknowledges) ==
    /\ phase' = "done"
    /\ history' = Observed(h, history)
    /\ runResult' = Observed([returned |-> TRUE, response |-> Apology,
                              toolCallsCount |-> toolCallsCount,
                              iterations |-> iterations,
                              shouldEscalate |->
                                  escalationCheck.shouldEscalate,
                              checked |-> escalationCheck.checked],
                             runResult)
    /\ IF escalationCheck.shouldEscalate /\ acknowledges
       THEN /\ sendResponse(message, Acknowledgment)
            /\ wpc' = "acknowledge"
       ELSE /\ sendResponse(message, Apology)
            /\ wpc' = "respond"

\* Return with the model calls of run as the iterations.
ReturnCountsCalls(message, h, response, escalationCheck, acknowledges) ==
    /\ phase' = "done"
    /\ history' = Observed(h, history)
    /\ runResult' = Observed([returned |-> TRUE, response |-> response,
                              toolCallsCount |-> toolCallsCount,
                              iterations |-> iterations + toolCallsCount,
                              shouldEscalate |->
                                  escalationCheck.shouldEscalate,
                              checked |-> escalationCheck.checked],
                             runResult)
    /\ IF escalationCheck.shouldEscalate /\ acknowledges
       THEN /\ sendResponse(message, Acknowledgment)
            /\ wpc' = "acknowledge"
       ELSE /\ sendResponse(message, response)
            /\ wpc' = "respond"

\* run returns (105-110, 165-169, 186-190) with h as the history, and
\* processWithAgent goes on: handleEscalation (which catches its errors) sends
\* its acknowledgment if it gets as far, else sendResponse.
Return(message, h, response, escalationCheck, acknowledges) ==
    /\ phase' = "done"
    /\ history' = Observed(h, history)
    /\ runResult' = Observed([returned |-> TRUE, response |-> response,
                              toolCallsCount |-> toolCallsCount,
                              iterations |-> iterations,
                              shouldEscalate |->
                                  escalationCheck.shouldEscalate,
                              checked |-> escalationCheck.checked],
                             runResult)
    /\ IF escalationCheck.shouldEscalate /\ acknowledges
       THEN /\ sendResponse(message, Acknowledgment)
            /\ wpc' = "acknowledge"
       ELSE /\ sendResponse(message, response)
            /\ wpc' = "respond"

\* FollowUp without the addMessage of the tool result.
FollowUpDropsResult(h) ==
    /\ history' = history
    /\ phase' = "followup"
    /\ sendMessage

\* FollowUp that goes round the loop: the next response is parsed again.
FollowUpReenters(h) ==
    /\ history' = Observed(h, history)
    /\ phase' = "first"
    /\ sendMessage

\* run 132-149: the tool result is in the history h; the second callGeneline.
FollowUp(h) ==
    /\ history' = Observed(h, history)
    /\ phase' = "followup"
    /\ sendMessage

\* A search_knowledge tool that sends its query again when its send rejected.
ToolSendFailsResends ==
    /\ sendMessage
    /\ UNCHANGED <<history, phase>>
    /\ UNCHANGED <<iterations, toolRuns, toolCallsCount, runResult>>

\* The send of the search_knowledge tool rejected: the catch block of the
\* tool returns an error text, and run goes on.
ToolSendFails ==
    /\ FollowUp(addMessage(history, "tool", SearchFailed))
    /\ UNCHANGED <<iterations, toolRuns, toolCallsCount, runResult>>

\* The queue calls its processor: processMessage(message) runs up to its
\* first await on the outside. Direct mode: the post of sendMessage. Agent
\* mode: the role lookup (which answers with the default role on any error),
\* then run: the post of the first callGeneline, or, when the loop is not
\* entered, the apology and the response sender.
ProcessMessage(message, mode) ==
    /\ call = "none"
    /\ message \in inflight
    /\ call' = mode
    /\ job' = message
    /\ IF mode = "direct"
       THEN /\ sendMessage
            /\ UNCHANGED <<avars, delivered>>
       ELSE IF loopCondition
       THEN /\ iterations' = iterations + 1
            /\ phase' = "first"
            /\ history' = Observed(addMessage(history, "user", UserMessage),
                                   history)
            /\ sendMessage
            /\ UNCHANGED <<toolRuns, toolCallsCount, runResult, delivered>>
       ELSE /\ Return(message,
                      addMessage(addMessage(history, "user", UserMessage),
                                 "assistant", Apology),
                      Apology, NoEscalationCheck, FALSE)
            /\ UNCHANGED <<sends, attempt, posts, errors, slept, chunks,
                           sendResult, iterations, toolRuns, toolCallsCount>>
    /\ UNCHANGED <<fallbackCalls, outcome, maxIterations>>
    /\ UNCHANGED <<qvars, xvars>>

\* ingest-client.ts 35: ingestFile(request)
IngestFile ==
    /\ call = "none"
    /\ call' = "ingest"
    /\ sendMessage
    /\ UNCHANGED <<job, delivered, fallbackCalls, outcome, avars, maxIterations>>
    /\ UNCHANGED <<qvars, xvars>>

\* client.post rejects: the catch block of sendWithRetry / ingestFileWithRetry.
PostFails(error) ==
    /\ wpc = "post"
    /\ IF shouldRetry(error, attempt)
       THEN /\ errors' = Append(errors, error)
            /\ slept' = slept + calculateBackoff(attempt)
            /\ wpc' = "sleep"
            /\ UNCHANGED <<sends, attempt, posts, chunks, sendResult, outcome,
                           avars>>
       ELSE IF phase = "tool"
       THEN /\ ToolSendFails
            /\ UNCHANGED outcome
       ELSE /\ errors' = Append(errors, error)
            /\ sendResult' = "rejected"
            /\ rejects
            /\ UNCHANGED <<sends, attempt, posts, slept, chunks, avars>>
    /\ UNCHANGED <<call, job, delivered, fallbackCalls, maxIterations>>
    /\ UNCHANGED <<qvars, xvars>>

\* The timer of sleep(delay) fires: sendWithRetry(request, attempt + 1).
Wake ==
    /\ wpc = "sleep"
    /\ attempt' = attempt + 1
    /\ posts' = posts + 1
    /\ wpc' = "post"
    /\ UNCHANGED <<call, job, sends, errors, slept, chunks, delivered,
                   fallbackCalls, sendResult, outcome, avars, maxIterations>>
    /\ UNCHANGED <<qvars, xvars>>

\* client.post resolves. ingestFileWithRetry returns response.data;
\* sendWithRetry returns the promise of the streamed body.
PostOk ==
    /\ wpc = "post"
    /\ IF call = "ingest"
       THEN /\ sendResult' = "resolved"
            /\ wpc' = "done"
       ELSE /\ wpc' = "stream"
            /\ UNCHANGED sendResult
    /\ UNCHANGED <<call, job, sends, attempt, posts, errors, slept, chunks,
                   delivered, fallbackCalls, outcome, avars, maxIterations>>
    /\ UNCHANGED <<qvars, xvars>>

\* response.data.on('data')
StreamData(chunk, limit) ==
    /\ wpc = "stream"
    /\ Len(chunks) < limit
    /\ chunks' = Append(chunks, chunk)
    /\ UNCHANGED <<call, job, wpc, sends, attempt, posts, errors, slept,
                   delivered, fallbackCalls, sendResult, outcome, avars,
                   maxIterations>>
    /\ UNCHANGED <<qvars, xvars>>

\* response.data.on('end'): sendMessage resolves with the joined chunks, and
\* its caller goes on to its next await on the outside.
\*   processDirectly: sendResponse.
\*   run, first response, no tool call: checkForEscalation (which catches its
\*     errors) says whether to escalate, and run returns.
\*   run, first response, a tool call: executeTool. search_knowledge posts its
\*     own sendMessage; another tool answers (raises: whether it throws) and
\*     the second callGeneline is made.
\*   search_knowledge: its result is the body; the second callGeneline.
\*   run, second response: returned without parseToolCall or escalation check.
StreamEnd(shouldEscalate, acknowledges, raises) ==
    /\ wpc = "stream"
    /\ LET response == chunks
           tool == parseToolCall(response)
       IN
       IF call = "direct"
       THEN /\ sendResult' = "resolved"
            /\ sendResponse(job, response)
            /\ wpc' = "respond"
            /\ UNCHANGED <<sends, attempt, posts, errors, slept, chunks, avars,
                           outcome>>
       ELSE IF phase = "first" /\ tool = NoToolCall
       THEN /\ sendResult' = "resolved"
            /\ Return(job, addMessage(history, "assistant", response),
                      response, checkForEscalation(shouldEscalate),
                      acknowledges)
            /\ UNCHANGED <<sends, attempt, posts, errors, slept, chunks,
                           iterations, toolRuns, toolCallsCount, outcome>>
       ELSE IF phase = "first"
       THEN /\ toolCallsCount' = toolCallsCount + 1
            /\ toolRuns' = toolRuns + 1
            /\ LET h == addMessage(history, "assistant", <<ToolJson(tool)>>)
                   done == executeTool(tool, raises)
               IN
               IF tool = "search_knowledge"
               THEN /\ history' = Observed(h, history)
                    /\ phase' = "tool"
                    /\ sendMessage
                    /\ UNCHANGED outcome
               ELSE IF done.threw
               THEN /\ sendResult' = "resolved"
                    /\ rejects
                    /\ history' = Observed(h, history)
                    /\ UNCHANGED <<sends, attempt, posts, errors, slept,
                                   chunks, phase>>
               ELSE /\ FollowUp(addMessage(h, "tool", done.result))
                    /\ UNCHANGED outcome
            /\ UNCHANGED <<iterations, runResult, delivered>>
       ELSE IF phase = "tool"
       THEN /\ FollowUp(addMessage(history, "tool", response))
            /\ UNCHANGED <<iterations, toolRuns, toolCallsCount, runResult,
                           delivered, outcome>>
       ELSE /\ sendResult' = "resolved"
            /\ Return(job, addMessage(history, "assistant", response),
                      response, NoEscalationCheck, FALSE)
            /\ UNCHANGED <<sends, attempt, posts, errors, slept, chunks,
                           iterations, toolRuns, toolCallsCount, outcome>>
    /\ UNCHANGED <<call, job, fallbackCalls, maxIterations>>
    /\ UNCHANGED <<qvars, xvars>>

\* A stream error handler that passes on the chunks received so far.
StreamErrorDeliversPartial ==
    /\ wpc = "stream"
    /\ sendResult' = "rejected"
    /\ sendResponse(job, chunks)
    /\ wpc' = "respond"
    /\ UNCHANGED <<call, job, sends, attempt, posts, errors, slept, chunks,
                   fallbackCalls, outcome, avars, maxIterations>>
    /\ UNCHANGED <<qvars, xvars>>

\* A stream error handled as a failure of the request is: backoff and a
\* further attempt while attempts are left.
StreamErrorRetries ==
    /\ wpc = "stream"
    /\ IF attempt < maxRetries
       THEN /\ slept' = slept + calculateBackoff(attempt)
            /\ wpc' = "sleep"
            /\ UNCHANGED <<sends, attempt, posts, errors, chunks, sendResult,
                           outcome, avars>>
       ELSE /\ sendResult' = "rejected"
            /\ rejects
            /\ UNCHANGED <<sends, attempt, posts, errors, slept, chunks, avars>>
    /\ UNCHANGED <<call, job, delivered, fallbackCalls, maxIterations>>
    /\ UNCHANGED <<qvars, xvars>>

\* response.data.on('error'): the promise sendWithRetry returned rejects. It
\* was returned without await, so the catch block of sendWithRetry does not
\* run: no retry.
StreamError ==
    /\ wpc = "stream"
    /\ IF phase = "tool"
       THEN /\ ToolSendFails
            /\ UNCHANGED outcome
       ELSE /\ sendResult' = "rejected"
            /\ rejects
            /\ UNCHANGED <<sends, attempt, posts, errors, slept, chunks, avars>>
    /\ UNCHANGED <<call, job, delivered, fallbackCalls, maxIterations>>
    /\ UNCHANGED <<qvars, xvars>>

\* The response sender resolves. After the acknowledgment comes the response.
ResponderOk ==
    /\ wpc \in {"acknowledge", "respond"}
    /\ IF wpc = "acknowledge"
       THEN /\ sendResponse(job, chunks)
            /\ wpc' = "respond"
            /\ UNCHANGED outcome
       ELSE /\ outcome' = "resolved"
            /\ wpc' = "returned"
            /\ UNCHANGED delivered
    /\ UNCHANGED <<call, job, sends, attempt, posts, errors, slept, chunks,
                   fallbackCalls, sendResult, avars, maxIterations>>
    /\ UNCHANGED <<qvars, xvars>>

\* A handleEscalation without its catch block: the rejection of the
\* acknowledgment rejects processWithAgent.
ResponderFailsUncaught ==
    /\ wpc \in {"acknowledge", "respond"}
    /\ rejects
    /\ UNCHANGED delivered
    /\ UNCHANGED <<call, job, sends, attempt, posts, errors, slept, chunks,
                   fallbackCalls, sendResult, avars, maxIterations>>
    /\ UNCHANGED <<qvars, xvars>>

\* The response sender rejects (handlers.ts sendResponse rethrows). The catch
\* block of handleEscalation takes the rejection of the acknowledgment; the
\* promise of the response is returned by processDirectly / processWithAgent.
ResponderFails ==
    /\ wpc \in {"acknowledge", "respond"}
    /\ IF wpc = "acknowledge"
       THEN /\ sendResponse(job, chunks)
            /\ wpc' = "respond"
            /\ UNCHANGED outcome
       ELSE /\ rejects
            /\ UNCHANGED delivered
    /\ UNCHANGED <<call, job, sends, attempt, posts, errors, slept, chunks,
                   fallbackCalls, sendResult, avars, maxIterations>>
    /\ UNCHANGED <<qvars, xvars>>

\* The promise of the processor resolved: .then and .finally of processNext.
ProcessorResolved ==
    /\ wpc = "returned"
    /\ outcome = "resolved"
    /\ Commit(onResolved(Mgr, job))
    /\ Called(OtherCall)
    /\ wpc' = "settled"
    /\ UNCHANGED <<enqLog, cleared>>
    /\ UNCHANGED <<call, job, sends, attempt, posts, errors, slept, chunks,
                   delivered, fallbackCalls, sendResult, outcome, avars,
                   maxIterations>>
    /\ UNCHANGED xvars

\* The promise of the processor rejected: .catch and .finally of processNext.
ProcessorRejected ==
    /\ wpc = "returned"
    /\ outcome = "rejected"
    /\ Commit(onRejected(Mgr, job))
    /\ Called(OtherCall)
    /\ wpc' = "settled"
    /\ UNCHANGED <<enqLog, cleared>>
    /\ UNCHANGED <<call, job, sends, attempt, posts, errors, slept, chunks,
                   delivered, fallbackCalls, sendResult, outcome, avars,
                   maxIterations>>
    /\ UNCHANGED xvars

\* ------------------------------------ IngestClient.waitForJobCompletion

\* IngestJobStatus.status
JobStatuses == {"pending", "processing", "completed", "failed"}

\* The entry of statuses for a getJobStatus call that threw.
Rejected == "rejected"

\* waitForJobCompletion has not been called.
PInit ==
    /\ ppc = "idle"
    /\ polls = 0
    /\ statuses = <<>>
    /\ waited = 0

\* The loop body that goes on polling when the job has failed.
afterPollIgnoresFailed(status) ==
    IF status = "completed" THEN "returned" ELSE "sleep"

\* waitForJobCompletion 211-224: what the loop body does with a status.
afterPoll(status) ==
    IF status = "completed" THEN "returned"
    ELSE IF status = "failed" THEN "raised"
    ELSE "sleep"

\* ingest-cli.ts 77: waitForJobCompletion(response.jobId, onProgress), after
\* ingestFile has answered with the job; it runs up to its first getJobStatus.
WaitForJobCompletion ==
    /\ call = "ingest"
    /\ sendResult = "resolved"
    /\ ppc = "idle"
    /\ ppc' = "get"
    /\ polls' = 1
    /\ UNCHANGED <<statuses, waited>>
    /\ UNCHANGED <<qvars, wvars, hvars>>

\* client.get of getJobStatus resolves with a status.
GetOk(status) ==
    /\ ppc = "get"
    /\ statuses' = Append(statuses, status)
    /\ ppc' = afterPoll(status)
    /\ UNCHANGED <<polls, waited>>
    /\ UNCHANGED <<qvars, wvars, hvars>>

\* client.get of getJobStatus rejects (network error, timeout, HTTP error):
\* getJobStatus throws, and waitForJobCompletion, which does not catch, with it.
GetFails ==
    /\ ppc = "get"
    /\ statuses' = Append(statuses, Rejected)
    /\ ppc' = "raised"
    /\ UNCHANGED <<polls, waited>>
    /\ UNCHANGED <<qvars, wvars, hvars>>

\* The timer of sleep(pollInterval) fires: the next getJobStatus.
PollWake ==
    /\ ppc = "sleep"
    /\ polls < MaxPolls
    /\ waited' = waited + pollInterval
    /\ polls' = polls + 1
    /\ ppc' = "get"
    /\ UNCHANGED statuses
    /\ UNCHANGED <<qvars, wvars, hvars>>

\* ---------------------------------------------------- ConversationHistory

\* cache.get(chatId) of a key the cache does not hold: undefined.
NoHistory == [present |-> FALSE, messages |-> <<>>]

\* An empty cache.
HInit ==
    /\ cache = [c \in Chats |-> NoHistory]
    /\ lru = <<>>
    /\ added = [c \in Chats |-> <<>>]
    /\ sinceDrop = [c \in Chats |-> <<>>]

\* The configuration of worker.ts 212-215 with the environment unset.
XInit ==
    /\ PInit
    /\ HInit
    /\ maxMessagesPerChat = DefaultHistoryLimit
    /\ maxChats = DefaultMaxChats

WorkerInit ==
    /\ QInit /\ probe = "none" /\ WInit /\ maxIterations = DefaultMaxIterations
    /\ XInit

\* One message through the queue and the worker, or one ingestFile call.
WorkerNext ==
    \/ \E c \in Chats : Enqueue(c, MaxJobs)
    \/ \E message \in inflight, mode \in {"direct", "agent"} :
           ProcessMessage(message, mode)
    \/ IngestFile
    \/ \E error \in AxiosErrors : PostFails(error)
    \/ Wake
    \/ PostOk
    \/ \E chunk \in DirectChunks : StreamData(chunk, MaxChunks)
    \/ \E shouldEscalate, acknowledges \in BOOLEAN :
           StreamEnd(shouldEscalate, acknowledges, FALSE)
    \/ StreamError
    \/ ResponderOk
    \/ ResponderFails
    \/ ProcessorResolved
    \/ ProcessorRejected

SpecWorker == WorkerInit /\ [][WorkerNext]_vars

\* The agent: messages processed in agent mode, for each configured
\* maxIterations and every response of the completion service; a post that
\* fails is answered with 404 (no retry).
AgentInit == QInit /\ probe = "agent" /\ WInit /\ XInit

\* One ingestFile call, and the wait for its job.
IngestInit ==
    /\ QInit /\ probe = "none" /\ WInit /\ maxIterations = DefaultMaxIterations
    /\ XInit

IngestNext ==
    \/ IngestFile
    \/ \E error \in AxiosErrors : PostFails(error)
    \/ Wake
    \/ PostOk
    \/ WaitForJobCompletion
    \/ \E status \in JobStatuses : GetOk(status)
    \/ GetFails
    \/ PollWake

SpecIngest == IngestInit /\ [][IngestNext]_vars

AgentNext ==
    \/ \E c \in Chats : Enqueue(c, MaxJobs)
    \/ \E message \in inflight : ProcessMessage(message, "agent")
    \/ PostFails([response |-> TRUE, status |-> 404])
    \/ PostOk
    \/ \E chunk \in Chunks : StreamData(chunk, MaxAgentChunks)
    \/ \E shouldEscalate, acknowledges, raises \in BOOLEAN :
           StreamEnd(shouldEscalate, acknowledges, raises)
    \/ StreamError
    \/ ResponderOk
    \/ ResponderFails
    \/ ProcessorResolved
    \/ ProcessorRejected

SpecAgent == AgentInit /\ [][AgentNext]_vars

\* -------------------------------------------- the ConversationHistory cache

Roles == {"user", "assistant", "tool"}

\* The messages added so far, over all chats.
NumAdded == SumLengths(added, Chats)

\* The cache makes key the most recently used one.
Touch(keys, key) == Append(RemoveKey(keys, key), key)

\* addMessage(chatId, message): cache.get(chatId) || [], push, slice, and
\* cache.set(chatId, trimmedHistory), for which a full cache evicts its least
\* recently used entry. The content of the message is its number.
AddMessage(chatId, role) ==
    /\ NumAdded < MaxAdds
    /\ LET content == <<NumAdded + 1>>
           message == [role |-> role, content |-> content]
           stored == IF cache[chatId].present
                     THEN cache[chatId].messages ELSE <<>>
           trimmedHistory == addMessage(stored, role, content)
           full == ~cache[chatId].present /\ Len(lru) >= maxChats
       IN
       /\ cache' = [k \in Chats |->
                      IF k = chatId
                      THEN [present |-> TRUE, messages |-> trimmedHistory]
                      ELSE IF full /\ k = Head(lru) THEN NoHistory
                      ELSE cache[k]]
       /\ lru' = Touch(IF full THEN Tail(lru) ELSE lru, chatId)
       /\ added' = [added EXCEPT ![chatId] = Append(@, message)]
       /\ sinceDrop' = [k \in Chats |->
                          IF k = chatId THEN Append(sinceDrop[k], message)
                          ELSE IF full /\ k = Head(lru) THEN <<>>
                          ELSE sinceDrop[k]]
    /\ UNCHANGED <<maxMessagesPerChat, maxChats>>
    /\ UNCHANGED <<qvars, wvars, pvars>>

\* getHistory(chatId): cache.get makes a key it holds the most recently used.
GetHistory(chatId) ==
    /\ cache[chatId].present
    /\ lru' = Touch(lru, chatId)
    /\ UNCHANGED <<maxMessagesPerChat, maxChats, cache, added, sinceDrop>>
    /\ UNCHANGED <<qvars, wvars, pvars>>

\* The ttl of the entry of chatId (24 hours from its last set) has run out:
\* the cache does not hold it any more.
Expire(chatId) ==
    /\ cache[chatId].present
    /\ cache' = [cache EXCEPT ![chatId] = NoHistory]
    /\ lru' = RemoveKey(lru, chatId)
    /\ sinceDrop' = [sinceDrop EXCEPT ![chatId] = <<>>]
    /\ UNCHANGED <<maxMessagesPerChat, maxChats, added>>
    /\ UNCHANGED <<qvars, wvars, pvars>>

\* A ConversationHistory with maxChats and maxMessagesPerChat >= 1.
HistoryInit ==
    /\ QInit /\ probe = "none" /\ WInit /\ maxIterations = DefaultMaxIterations
    /\ PInit
    /\ HInit
    /\ maxMessagesPerChat \in 1..MaxHistoryLimit
    /\ maxChats \in 1..MaxCachedChats

\* The calls the agent runs make on the history, in any interleaving, and
\* the passing of time.
HistoryNext ==
    \/ \E chatId \in Chats, role \in Roles : AddMessage(chatId, role)
    \/ \E chatId \in Chats : GetHistory(chatId)
    \/ \E chatId \in Chats : Expire(chatId)

SpecHistory == HistoryInit /\ [][HistoryNext]_vars

Init ==
    /\ QInit /\ probe = "pacing" /\ WInit /\ maxIterations = DefaultMaxIterations
    /\ XInit

AdminInit ==
    /\ QInit /\ probe = "calls" /\ WInit /\ maxIterations = DefaultMaxIterations
    /\ XInit

\* The queue under enqueues, timers, completions and the passing of time.
Next ==
    \/ \E c \in Chats : Enqueue(c, MaxMessages)
    \/ TimerFire
    \/ \E message \in inflight : CompleteOk(message)
    \/ \E message \in inflight : CompleteFail(message)
    \/ Tick

Spec == Init /\ [][Next]_vars

\* The same with the administrative calls clearChat and clearAll.
AdminNext ==
    \/ \E c \in Chats : Enqueue(c, MaxAdminMessages)
    \/ TimerFire
    \/ \E message \in inflight : CompleteOk(message)
    \/ \E message \in inflight : CompleteFail(message)
    \/ \E c \in Chats : ClearChat(c)
    \/ ClearAll
    \/ Tick

SpecAdmin == AdminInit /\ [][AdminNext]_vars


\* The queue when every processMessage call resolves: each promise in flight
\* settles, each pending timer fires, and time passes.
LiveNext ==
    \/ \E c \in Chats : Enqueue(c, MaxMessages)
    \/ TimerFire
    \/ \E message \in inflight : CompleteOk(message)
    \/ Tick

LiveInit ==
    /\ QInit /\ probe = "none" /\ WInit /\ maxIterations = DefaultMaxIterations
    /\ XInit

LiveSpec ==
    /\ LiveInit
    /\ [][LiveNext]_vars
    /\ WF_vars(TimerFire)
    /\ WF_vars(\E message \in inflight : CompleteOk(message))
    /\ WF_vars(Tick)

\* ------------------------------------------------- properties of the queue

Ids(q) == [i \in 1..Len(q) |-> q[i].messageId]
UpTo(n) == [i \in 1..n |-> i]
Range(f) == {f[i] : i \in DOMAIN f}

\* C1. FIFO: without clearChat/clearAll, the messages of a chat are handed to
\* processMessage in the order of their enqueue calls: the i-th message
\* dispatched is the i-th message enqueued, and those still queued follow in
\* enqueue order.
C1_Fifo ==
    \A c \in Chats : dispLog[c] \o Ids(queues[c]) = UpTo(enqLog[c])

\* Two messages of one chat were dispatched while a third one waits.
C1_Witness ==
    \E c \in Chats : Len(dispLog[c]) >= 2 /\ Len(queues[c]) >= 1

\* C2. The number of processMessage calls in flight is activeWorkers, and it
\* is at least 0 and at most maxConcurrency.
C2_ConcurrencyBound ==
    /\ activeWorkers = Cardinality(inflight)
    /\ 0 <= activeWorkers
    /\ activeWorkers <= maxConcurrency

\* All maxConcurrency slots are taken and a message that the rate limiter
\* would admit is waiting for one.
C2_Witness ==
    /\ activeWorkers = maxConcurrency
    /\ maxConcurrency = MaxConcurrencyCfg
    /\ \E c \in Chats : /\ Len(queues[c]) > 0
                        /\ checkRateLimit(chatLimits, c).delay = 0

\* C3. Pacing: an admission of a chat finds its previous admission at least
\* rateLimitMs in the past.
C3_Pacing ==
    lastGap.admit = -1 \/ lastGap.admit >= rateLimitMs

\* A chat was admitted a second time under a positive rate limit.
C3_Witness ==
    /\ rateLimitMs > 0
    /\ lastGap.admit >= rateLimitMs

\* C4 as stated: an admission of a chat finds the last completion of one of
\* its messages, successful or not, at least rateLimitMs in the past.
C4_GateAfterAnyCompletion ==
    lastGap.end = -1 \/ lastGap.end >= rateLimitMs

\* C4, amended. Moving gate: an admission of a chat finds both its previous
\* admission and the last successful completion of one of its messages at
\* least rateLimitMs in the past.
C4_MovingGate ==
    /\ lastGap.admit = -1 \/ lastGap.admit >= rateLimitMs
    /\ lastGap.done = -1 \/ lastGap.done >= rateLimitMs

\* A chat was admitted after one of its messages had completed successfully,
\* with the completion later than the previous admission.
C4_Witness ==
    /\ rateLimitMs > 0
    /\ lastGap.done >= rateLimitMs
    /\ stats.totalProcessed > 0

\* C5. A message is handed to processMessage at most once: no message occurs
\* twice in the dispatch log, and none that was dispatched is in a queue.
C5_AtMostOnce ==
    \A c \in Chats :
        /\ \A i, j \in 1..Len(dispLog[c]) : i # j => dispLog[c][i] # dispLog[c][j]
        /\ Range(Ids(queues[c])) \cap Range(dispLog[c]) = {}
        /\ \A message \in inflight :
               message.chatId = c => message.messageId \in Range(dispLog[c])

\* A message failed, a later message of the same chat was dispatched, and
\* nothing is left to dispatch.
C5_Witness ==
    /\ stats.totalFailed > 0
    /\ \E c \in Chats : Len(dispLog[c]) >= 2 /\ Len(queues[c]) = 0
    /\ stats.currentQueueLength = 0

Drained ==
    /\ \A c \in Chats : queues[c] = <<>> /\ dispLog[c] = UpTo(enqLog[c])
    /\ inflight = {}
    /\ activeWorkers = 0
    /\ stats.currentQueueLength = 0
    /\ stats.totalProcessed = stats.totalQueued

\* C6. Drain liveness: when every processMessage call resolves and every
\* timer fires, the queue ends up drained for good: every message enqueued
\* was dispatched exactly once, all queues are empty, nothing is in flight,
\* activeWorkers = 0 and totalProcessed = totalQueued.
C6_DrainLiveness == <>[]Drained

\* All MaxMessages messages were enqueued, over both chats, and processed.
C6_Witness ==
    /\ Drained
    /\ stats.totalProcessed = MaxMessages
    /\ \A c \in Chats : enqLog[c] > 0

\* C7 as stated: right after clearChat(id); enqueue(id, m) the queue of id is
\* exactly <<m>>.
C7_QueueIsOnlyM ==
    lastCall.op = "clearChat;enqueue" =>
        Ids(queues[lastCall.chatId]) = <<lastCall.messageId>>

\* C7, amended: right after clearChat(id); enqueue(id, m) the queue of id
\* holds no message other than m: it is <<m>>, or it is empty and m has
\* been handed to processMessage by the admission scan of enqueue.
C7_ResetThenEnqueue ==
    lastCall.op = "clearChat;enqueue" =>
        LET c == lastCall.chatId
            mid == lastCall.messageId IN
        \/ /\ Ids(queues[c]) = <<mid>>
           /\ mid \notin Range(dispLog[c])
        \/ /\ queues[c] = <<>>
           /\ [chatId |-> c, messageId |-> mid] \in inflight
           /\ dispLog[c][Len(dispLog[c])] = mid

\* clearChat(id) dropped a queued message, and m is now alone in the queue.
C7_Witness ==
    /\ lastCall.op = "clearChat;enqueue"
    /\ lastCall.dropped > 0
    /\ Ids(queues[lastCall.chatId]) = <<lastCall.messageId>>

\* ----------------------------------- properties of the worker and client

\* C8: processMessage never lets a failure escape: the promise it returns to
\* the queue never rejects, and the queue never counts a failed dispatch.
C8_NoFailureEscapes ==
    /\ outcome # "rejected"
    /\ stats.totalFailed = 0

\* C9: when the processing of a message has failed (its send was rejected),
\* the fallback sender has been called exactly once, the response sender not
\* at all, and the message is not back in its queue.
C9_FallbackOnFailure ==
    (call \in {"direct", "agent"} /\ sendResult = "rejected")
        => /\ fallbackCalls = 1
           /\ delivered = <<>>
           /\ \A c \in Chats : job.messageId \notin Range(Ids(queues[c]))

\* C10 as stated: one send (or one ingest submission) makes at most 3 posts.
C10_AtMostThreeAttempts == posts <= 3

\* C10: one send (or one ingest submission) makes at most 1 + maxRetries
\* posts: the first attempt and maxRetries retries.
C10_AtMostOnePlusMaxRetries == posts <= 1 + maxRetries

\* A send has failed with its final error after 1 + maxRetries posts.
C10_Witness ==
    /\ sendResult = "rejected"
    /\ posts = 1 + maxRetries
    /\ Len(errors) = posts

\* The sum of baseDelay * 2^i for i = 0..j-1.
RECURSIVE SumBackoff(_)
SumBackoff(j) == IF j = 0 THEN 0 ELSE SumBackoff(j - 1) + baseDelay * (2 ^ (j - 1))

Retryable(error) ==
    \/ ~error.response
    \/ error.status = 429
    \/ (error.status >= 500 /\ error.status < 600)

\* C11: when a send has resolved after j failed posts, each of the j failures
\* was retryable (no response, 429, or 5xx), the post that succeeded was
\* number j + 1, and the backoff slept before it is the sum of
\* baseDelay * 2^i for i = 0..j-1.
C11_RetrySuccess ==
    sendResult = "resolved"
        => /\ \A i \in 1..Len(errors) : Retryable(errors[i])
           /\ posts = Len(errors) + 1
           /\ slept = SumBackoff(Len(errors))

\* 503, 503, success: the send resolved with its payload after 3000 ms of backoff.
C11_Witness ==
    /\ call = "direct"
    /\ sendResult = "resolved"
    /\ errors = <<[response |-> TRUE, status |-> 503],
                  [response |-> TRUE, status |-> 503]>>
    /\ slept = 3000
    /\ delivered # <<>>

\* C12: a post answered with a 4xx status other than 429 is the last post of
\* its send: the send is rejected at once, with no backoff slept for that
\* failure and no further post; when it is the first post, after exactly one
\* attempt and no backoff at all.
C12_NoRetryOn4xx ==
    \A i \in 1..Len(errors) :
        (errors[i].response /\ errors[i].status >= 400
            /\ errors[i].status < 500 /\ errors[i].status # 429)
        => /\ i = Len(errors)
           /\ posts = i
           /\ slept = SumBackoff(i - 1)
           /\ sendResult = "rejected"
           /\ wpc \notin {"post", "sleep", "stream"}

\* The first post was answered with 404 and the send has failed.
C12_Witness ==
    /\ errors = <<[response |-> TRUE, status |-> 404]>>
    /\ posts = 1
    /\ slept = 0
    /\ sendResult = "rejected"

\* ------------------------------------------------ properties of the agent

ToolCallOf(entry) ==
    IF entry.role = "assistant" /\ Len(entry.content) = 1
          /\ entry.content[1] \in ToolJsons
    THEN ToolOf(entry.content[1])
    ELSE NoToolCall

\* run has made a completion call and appended its answer to the history.
FirstAnswered == Len(history) >= 2 /\ sends >= 1

\* C13: in agent mode, when the first completion response holds no tool call,
\* run returns that response verbatim with toolCallsCount = 0 and
\* iterations = 1, after exactly one completion call and no tool.
C13_NoToolRun ==
    (runResult.returned /\ FirstAnswered /\ ToolCallOf(history[2]) = NoToolCall)
        => /\ runResult.response = chunks
           /\ history[2] = [role |-> "assistant", content |-> chunks]
           /\ Len(history) = 2
           /\ runResult.toolCallsCount = 0
           /\ runResult.iterations = 1
           /\ sends = 1
           /\ toolRuns = 0

\* run has returned a first response without tool call, and it was delivered.
C13_Witness ==
    /\ runResult.returned
    /\ runResult.response = <<"Hello">>
    /\ runResult.iterations = 1
    /\ sends = 1
    /\ outcome = "resolved"

\* C14 as stated: after a first response that calls a registered tool, run
\* returns the second response with toolCallsCount = 1 and iterations = 2,
\* the tool executed once and one further model call made.
C14_OneToolTwoIterations ==
    (runResult.returned /\ FirstAnswered
        /\ ToolCallOf(history[2]) \in Registered)
        => /\ toolRuns = 1
           /\ sends = (IF ToolCallOf(history[2]) = "search_knowledge" THEN 3 ELSE 2)
           /\ runResult.response = chunks
           /\ runResult.toolCallsCount = 1
           /\ runResult.iterations = 2

\* C14: after a first response that calls a registered tool, run executes the
\* tool once, makes exactly one further model call (the second send; the
\* third is the one search_knowledge makes itself) and returns the response
\* to it with toolCallsCount = 1 and iterations = 1.
C14_OneToolOneIteration ==
    (runResult.returned /\ FirstAnswered
        /\ ToolCallOf(history[2]) \in Registered)
        => /\ toolRuns = 1
           /\ sends = (IF ToolCallOf(history[2]) = "search_knowledge" THEN 3 ELSE 2)
           /\ runResult.response = chunks
           /\ Len(history) = 4
           /\ history[4] = [role |-> "assistant", content |-> chunks]
           /\ runResult.toolCallsCount = 1
           /\ runResult.iterations = 1

\* run has returned after the search_knowledge tool answered "Hello".
C14_Witness ==
    /\ runResult.returned
    /\ Len(history) >= 3
    /\ ToolCallOf(history[2]) = "search_knowledge"
    /\ history[3] = [role |-> "tool", content |-> <<"Hello">>]
    /\ runResult.toolCallsCount = 1
    /\ toolRuns = 1

\* C15: for every maxIterations, one run executes at most one tool and goes
\* through the loop body at most once; after a tool call the response to the
\* follow-up prompt is returned as it is, also when it holds a tool call.
C15_AtMostOneTool ==
    /\ toolRuns <= 1
    /\ toolCallsCount <= 1
    /\ iterations <= 1
    /\ (runResult.returned /\ toolRuns = 1)
           => /\ runResult.response = chunks
              /\ history[Len(history)] = [role |-> "assistant", content |-> chunks]

\* With maxIterations = 5, run returned a follow-up response that holds a
\* tool call.
C15_Witness ==
    /\ maxIterations = DefaultMaxIterations
    /\ runResult.returned
    /\ toolRuns = 1
    /\ parseToolCall(runResult.response) # NoToolCall

ToolErrors == {ToolNotFound, ToolExecutionFailed, SearchFailed}

\* C16: once executeTool has been called (the tool call is in the history and
\* no tool is running), its result is in the history as the tool result, also
\* when the tool is not registered or raised; the follow-up model call is
\* then made, and run returns normally with toolCallsCount = 1 unless that
\* follow-up call itself fails.
C16_ToolErrorsAreSoft ==
    (FirstAnswered /\ ToolCallOf(history[2]) # NoToolCall /\ phase # "tool")
        => /\ Len(history) >= 3
           /\ history[3].role = "tool"
           /\ (ToolCallOf(history[2]) \notin Registered
                  => history[3].content = ToolNotFound)
           /\ history[3].content \in ToolErrors
                  => /\ toolCallsCount = 1
                     /\ phase \in {"followup", "done"}
                     /\ sends >= 2
                     /\ (outcome = "rejected"
                            => sendResult = "rejected" \/ runResult.returned)
                     /\ (runResult.returned
                            => /\ runResult.toolCallsCount = 1
                               /\ runResult.response = chunks)

\* run returned normally after a call of a tool that is not registered.
C16_Witness ==
    /\ runResult.returned
    /\ Len(history) >= 3
    /\ history[3] = [role |-> "tool", content |-> ToolNotFound]
    /\ runResult.toolCallsCount = 1
    /\ outcome = "resolved"

\* run returned normally after a tool that raised.
C16_WitnessRaised ==
    /\ runResult.returned
    /\ Len(history) >= 3
    /\ history[3] = [role |-> "tool", content |-> ToolExecutionFailed]
    /\ runResult.toolCallsCount = 1

\* ---------------------------------------- completions, clears, statistics

\* A step in which a dispatched message completes: it leaves the messages
\* in flight.
Completes == inflight \ inflight' # {}

\* C17: in every step in which a dispatched message completes, with either
\* outcome: one message completes; exactly one of totalProcessed and
\* totalFailed goes up, by one; activeWorkers goes down by one (and up by one
\* for a message the re-invoked scan admits); and the scan has run: a
\* message of another conversation still waits only if no slot is free, or a
\* message was admitted in this step, or its conversation is rate limited.
C17_CompletionFreesSlot ==
    [][Completes =>
        /\ Cardinality(inflight \ inflight') = 1
        /\ \/ /\ stats'.totalProcessed = stats.totalProcessed + 1
              /\ stats'.totalFailed = stats.totalFailed
           \/ /\ stats'.totalProcessed = stats.totalProcessed
              /\ stats'.totalFailed = stats.totalFailed + 1
        /\ Cardinality(inflight' \ inflight) <= 1
        /\ activeWorkers' = activeWorkers - 1 + Cardinality(inflight' \ inflight)
        /\ \A c \in Chats :
               queues'[c] # <<>>
                  => \/ activeWorkers' >= maxConcurrency
                     \/ inflight' \ inflight # {}
                     \/ /\ chatLimits'[c].present
                        /\ chatLimits'[c].age < rateLimitMs
    ]_vars

\* With one slot, the message of one conversation has failed and the message
\* of the other conversation, which waited for the slot, is in flight.
C17_Witness ==
    /\ maxConcurrency = 1
    /\ stats.totalFailed = 1
    /\ stats.totalProcessed = 0
    /\ dispLog["a@c.us"] = <<1>>
    /\ inflight = {[chatId |-> "b@c.us", messageId |-> 1]}

\* C18: no partial output. The response sender is called only after the end
\* of the stream, for the message processed, and with the complete body (all
\* the chunks received, joined; in agent mode also with the acknowledgment of
\* an escalation); when the send has failed, as it does when the stream
\* errors, the response sender has not been called.
C18_NoPartialOutput ==
    /\ delivered # <<>>
          => /\ sendResult = "resolved"
             /\ wpc \notin {"post", "sleep", "stream"}
    /\ \A i \in 1..Len(delivered) :
          /\ delivered[i].chatId = job.chatId
          /\ delivered[i].messageId = job.messageId
          /\ \/ delivered[i].response = chunks
             \/ call = "agent" /\ delivered[i].response = Acknowledgment
    /\ sendResult = "rejected" => delivered = <<>>

\* In direct mode a body of two chunks was delivered whole.
C18_Witness ==
    /\ call = "direct"
    /\ Len(chunks) = 2
    /\ Len(delivered) = 1
    /\ delivered[1].response = chunks
    /\ outcome = "resolved"

\* In direct mode the stream errored after a chunk, and nothing was delivered.
C18_WitnessError ==
    /\ call = "direct"
    /\ Len(chunks) >= 1
    /\ errors = <<>>
    /\ sendResult = "rejected"
    /\ delivered = <<>>

\* The messages of chat c that were enqueued and are neither queued nor
\* dispatched: the discarded ones.
Discarded(c) ==
    {id \in 1..enqLog[c] :
        id \notin Range(dispLog[c]) /\ id \notin Range(Ids(queues[c]))}

\* A step that discards queued messages: queues shrink and nothing is
\* dispatched.
Discards ==
    /\ SumLengths(queues', Chats) < SumLengths(queues, Chats)
    /\ dispLog' = dispLog

\* C19: a clear discards queued messages only. In a step that discards:
\* each queue is emptied or left alone (clearChat(id): the queue of id, and
\* no other), currentQueueLength is the new sum of the queue lengths, and
\* activeWorkers, the messages in flight and totalQueued, totalProcessed,
\* totalFailed are unchanged. A discarded message is never queued or
\* dispatched again. Every dispatched message is in flight or counted as
\* processed or failed, with or without clears.
C19_ClearsDiscardQueuedOnly ==
    /\ [][Discards =>
            /\ \A c \in Chats : queues'[c] \in {queues[c], <<>>}
            /\ lastCall'.op = "clearChat"
                  => queues' = [queues EXCEPT ![lastCall'.chatId] = <<>>]
            /\ lastCall'.op # "clearChat"
                  => queues' = [c \in Chats |-> <<>>]
            /\ stats'.currentQueueLength = SumLengths(queues', Chats)
            /\ activeWorkers' = activeWorkers
            /\ inflight' = inflight
            /\ stats'.activeWorkers = stats.activeWorkers
            /\ stats'.totalQueued = stats.totalQueued
            /\ stats'.totalProcessed = stats.totalProcessed
            /\ stats'.totalFailed = stats.totalFailed
         ]_vars
    /\ [][\A c \in Chats : \A id \in Discarded(c) :
              /\ id \notin Range(dispLog'[c])
              /\ id \notin Range(Ids(queues'[c]))
         ]_vars
    /\ [](stats.totalProcessed + stats.totalFailed + Cardinality(inflight)
              = SumLengths(dispLog, Chats))

\* After clearChat dropped a queued message while another was in flight, the
\* message in flight has completed and is counted; the dropped one is gone.
C19_Witness ==
    /\ cleared
    /\ maxConcurrency = 1
    /\ rateLimitMs = 0
    /\ \E c \in Chats :
          /\ Discarded(c) # {}
          /\ dispLog[c] # <<>>
          /\ \A id \in Discarded(c) : id > dispLog[c][Len(dispLog[c])]
    /\ inflight = {}
    /\ stats.totalProcessed + stats.totalFailed = SumLengths(dispLog, Chats)
    /\ stats.totalProcessed >= 1

\* C20: after every enqueue, admission, completion and clear, the statistics
\* agree with the state: currentQueueLength is the sum of the lengths of the
\* queues, and stats.activeWorkers is activeWorkers, the number of processor
\* calls in flight.
C20_StatsAgree ==
    /\ stats.currentQueueLength = SumLengths(queues, Chats)
    /\ stats.activeWorkers = activeWorkers
    /\ stats.activeWorkers = Cardinality(inflight)

\* Messages are queued and in flight after a clear and a completion.
C20_Witness ==
    /\ cleared
    /\ stats.currentQueueLength >= 1
    /\ stats.activeWorkers >= 1
    /\ stats.totalProcessed + stats.totalFailed >= 1

\* ------------------------------------------- properties of the job poller

Terminal == {"completed", "failed"}

LastStatus == IF statuses = <<>> THEN "none" ELSE statuses[Len(statuses)]

\* The polls are one pollInterval apart, and only the last one can have ended
\* the wait.
PollsPaced ==
    /\ polls = Len(statuses) + (IF ppc = "get" THEN 1 ELSE 0)
    /\ polls >= 1 => waited = pollInterval * (polls - 1)
    /\ \A i \in 1..(Len(statuses) - 1) : statuses[i] \notin Terminal \cup {Rejected}

\* C21 as stated: waitForJobCompletion stops only at a terminal state: it
\* returns exactly when a poll reports 'completed', raises exactly when a poll
\* reports 'failed', and otherwise keeps polling, one poll interval apart.
C21_StopsOnlyAtTerminal ==
    /\ PollsPaced
    /\ ppc = "returned" <=> LastStatus = "completed"
    /\ ppc = "raised" <=> LastStatus = "failed"
    /\ (polls >= 1 /\ LastStatus \notin Terminal) => ppc \in {"get", "sleep"}

\* C21: waitForJobCompletion polls the status endpoint one poll interval
\* apart. It returns exactly when a poll reports 'completed'; it raises
\* exactly when a poll reports 'failed' or the status request itself fails;
\* after any other answer it sleeps and polls again, however many polls
\* have been made.
C21_PollsUntilTerminalOrError ==
    /\ PollsPaced
    /\ ppc = "returned" <=> LastStatus = "completed"
    /\ ppc = "raised" <=> LastStatus \in {"failed", Rejected}
    /\ (polls >= 1 /\ LastStatus \notin Terminal \cup {Rejected})
           => ppc \in {"get", "sleep"}

\* After MaxPolls - 1 polls that reported a job under way, the last poll
\* reported 'failed' and the wait has raised.
C21_Witness ==
    /\ ppc = "raised"
    /\ polls = MaxPolls
    /\ LastStatus = "failed"
    /\ statuses[1] = "processing"
    /\ waited = pollInterval * (MaxPolls - 1)

\* The wait has returned at the first poll.
C21_WitnessCompleted ==
    /\ ppc = "returned"
    /\ statuses = <<"completed">>
    /\ waited = 0

\* ------------------------------------------- properties of the admission

\* C22: checkRateLimit has exactly three cases. With no entry for the chat it
\* creates one with lastMessageTime = now and returns 0. With an entry and
\* now - lastMessageTime < rateLimitMs it returns rateLimitMs -
\* (now - lastMessageTime), which is positive, and leaves the entry (time and
\* count) as it is. Otherwise it sets lastMessageTime = now, adds one to
\* messageCount and returns 0. The entries of the other chats are not touched.
C22_CheckThreeCases ==
    \A c \in Chats :
        LET entry == chatLimits[c]
            r == checkRateLimit(chatLimits, c)
        IN
        /\ \A d \in Chats \ {c} : r.limits[d] = chatLimits[d]
        /\ r.limits[c].present
        /\ ~entry.present
              => /\ r.delay = 0
                 /\ r.limits[c].age = 0
                 /\ r.limits[c].messageCount = 1
        /\ (entry.present /\ entry.age < rateLimitMs)
              => /\ r.delay = rateLimitMs - entry.age
                 /\ r.delay > 0
                 /\ r.limits[c] = entry
        /\ (entry.present /\ entry.age >= rateLimitMs)
              => /\ r.delay = 0
                 /\ r.limits[c].age = 0
                 /\ r.limits[c].messageCount = entry.messageCount + 1

\* A scan has asked for a chat within its rate limit, with a message waiting:
\* a deferred scan is pending for the rest of the rate limit, and the entry
\* still carries the time and the count of the admission, one unit of time ago.
C22_Witness ==
    /\ rateLimitMs = MaxRateLimit
    /\ \E c \in Chats :
          /\ queues[c] # <<>>
          /\ chatLimits[c].present
          /\ chatLimits[c].age = 1
          /\ chatLimits[c].messageCount = 1
          /\ sinceAdmit[c] = 1
          /\ timers[rateLimitMs - 1] > 0

\* The kind of the step taken, read off the state: a deferred scan fires, a
\* message is enqueued, a dispatched message completes.
TimerStep == timers'[0] = timers[0] - 1
EnqueueStep == enqLog' # enqLog
CompletionStep == inflight \ inflight' # {}

\* The state of the manager in which the admission scan of the step starts:
\* the timer is consumed, the message pushed, the completion counted.
BeforeScan ==
    IF TimerStep THEN [Mgr EXCEPT !.timers[0] = @ - 1]
    ELSE IF EnqueueStep
    THEN LET c == CHOOSE x \in Chats : enqLog'[x] # enqLog[x]
         IN push(Mgr, [chatId |-> c, messageId |-> enqLog'[c]])
    ELSE LET message == CHOOSE x \in inflight : x \notin inflight'
         IN IF stats'.totalProcessed > stats.totalProcessed
            THEN onResolvedNoPump(Mgr, message)
            ELSE onRejectedNoPump(Mgr, message)

\* The wait the rate limiter answers for the i-th conversation of m.
WaitOf(m, i) == checkRateLimit(m.chatLimits, m.order[i]).delay

\* The positions, in the insertion order of the queue map, of the
\* conversations whose queue is non-empty and whose rate-limit check answers 0.
Eligible(m) ==
    {i \in 1..Len(m.order) : m.queues[m.order[i]] # <<>> /\ WaitOf(m, i) = 0}

FirstEligible(m) ==
    IF Eligible(m) = {} THEN Len(m.order) + 1
    ELSE CHOOSE i \in Eligible(m) : \A j \in Eligible(m) : i <= j

\* The non-empty conversations before the first eligible one: rate limited.
LimitedBefore(m) ==
    {i \in 1..(FirstEligible(m) - 1) : m.queues[m.order[i]] # <<>>}

\* C23: an admission scan with free capacity admits at most one message: the
\* head of the first conversation, in the insertion order of the queue map,
\* whose queue is non-empty and whose rate-limit check answers 0. For every
\* earlier non-empty conversation, which is rate limited, it schedules one
\* deferred scan after the wait answered, and it goes on to the next
\* conversation. When no conversation is eligible nothing is admitted.
C23_ScanAdmitsFirstEligible ==
    [][(TimerStep \/ EnqueueStep \/ CompletionStep) =>
        LET m == BeforeScan
            first == FirstEligible(m)
        IN
        m.activeWorkers < maxConcurrency =>
            /\ \A i \in LimitedBefore(m) : WaitOf(m, i) > 0
            /\ \A d \in Delays :
                  timers'[d] = m.timers[d]
                      + Cardinality({i \in LimitedBefore(m) : WaitOf(m, i) = d})
            /\ IF Eligible(m) = {}
               THEN /\ inflight' = m.inflight
                    /\ queues' = m.queues
                    /\ activeWorkers' = m.activeWorkers
                    /\ chatLimits' = m.chatLimits
               ELSE LET c == m.order[first] IN
                    /\ inflight' = m.inflight \cup {Head(m.queues[c])}
                    /\ Head(m.queues[c]) \notin m.inflight
                    /\ queues' = [m.queues EXCEPT ![c] = Tail(@)]
                    /\ activeWorkers' = m.activeWorkers + 1
                    /\ \A d \in Chats \ {c} : chatLimits'[d] = m.chatLimits[d]
    ]_vars

\* The first conversation of the map is rate limited with a message waiting,
\* and the scan of the enqueue of the second conversation has scheduled a
\* deferred scan for the first and admitted the message of the second.
C23_Witness ==
    /\ maxConcurrency = 2
    /\ order = <<"a@c.us", "b@c.us">>
    /\ Ids(queues["a@c.us"]) = <<2>>
    /\ chatLimits["a@c.us"].age < rateLimitMs
    /\ inflight = {[chatId |-> "a@c.us", messageId |-> 1],
                   [chatId |-> "b@c.us", messageId |-> 1]}
    /\ stats.totalProcessed + stats.totalFailed = 0
    /\ NumTimers(timers) = 2

\* C24: when activeWorkers >= maxConcurrency an admission scan is a no-op:
\* the step of a timer that fires or of an enqueue ends in the state its scan
\* started in. Nothing is dequeued or dispatched, the rate limiter is neither
\* asked nor written, no deferred scan is scheduled, and the queues, the
\* counters and activeWorkers are as they were.
C24_NoOpAtCapacity ==
    [][(TimerStep \/ EnqueueStep) =>
        LET m == BeforeScan IN
        m.activeWorkers >= maxConcurrency =>
            /\ queues' = m.queues
            /\ order' = m.order
            /\ dispLog' = dispLog
            /\ inflight' = inflight
            /\ chatLimits' = chatLimits
            /\ timers' = m.timers
            /\ NumTimers(timers') <= NumTimers(timers)
            /\ activeWorkers' = activeWorkers
            /\ stats' = m.stats
            /\ stats'.totalProcessed = stats.totalProcessed
            /\ stats'.totalFailed = stats.totalFailed
            /\ stats'.activeWorkers = stats.activeWorkers
    ]_vars

\* With one slot taken by a message of one conversation, the first message of
\* the other conversation was enqueued: it waits, the rate limiter holds no
\* entry for its conversation, and no deferred scan is pending.
C24_Witness ==
    /\ maxConcurrency = 1
    /\ activeWorkers = 1
    /\ rateLimitMs > 0
    /\ \E c \in Chats :
          /\ Ids(queues[c]) = <<1>>
          /\ dispLog[c] = <<>>
          /\ ~chatLimits[c].present
    /\ NumTimers(timers) = 0

\* The message that completes in a completion step, and its conversation.
Completed == CHOOSE x \in inflight : x \notin inflight'

\* The step admits a message of conversation c.
Admits(c) == Len(dispLog'[c]) > Len(dispLog[c])

\* C25 as stated: recordMessage is called for the conversation of the message
\* on every completion, failed or successful: the entry of the conversation
\* carries the time of the completion, and its count has gone up.
C25_RecordOnEveryCompletion ==
    [][CompletionStep =>
        LET c == Completed.chatId IN
        /\ chatLimits'[c].present
        /\ chatLimits'[c].age = 0
        /\ chatLimits'[c].messageCount >= chatLimits[c].messageCount + 1
    ]_vars

\* C25: recordMessage is called for the conversation of the message on every
\* successful completion, and the entry then carries the time of the
\* completion and one more message. On a failed completion it is not called:
\* the entry of the conversation is left as it is, unless the scan that
\* follows admits the next message of the conversation, and then it is
\* checkRateLimit that writes it.
C25_RecordOnSuccessOnly ==
    [][CompletionStep =>
        LET c == Completed.chatId
            admitted == IF Admits(c) THEN 1 ELSE 0
        IN
        IF stats'.totalProcessed > stats.totalProcessed
        THEN /\ chatLimits'[c].present
             /\ chatLimits'[c].age = 0
             /\ chatLimits'[c].messageCount
                    = chatLimits[c].messageCount + 1 + admitted
        ELSE /\ stats'.totalFailed = stats.totalFailed + 1
             /\ IF Admits(c)
                THEN /\ chatLimits'[c].age = 0
                     /\ chatLimits'[c].messageCount
                            = chatLimits[c].messageCount + 1
                ELSE chatLimits'[c] = chatLimits[c]
    ]_vars

\* The only message of a conversation has failed some time after its
\* admission: the entry of the conversation still carries the time of the
\* admission and counts one message.
C25_Witness ==
    /\ rateLimitMs = MaxRateLimit
    /\ stats.totalFailed = 1
    /\ stats.totalProcessed = 0
    /\ \E c \in Chats :
          /\ dispLog[c] = <<1>>
          /\ enqLog[c] = 1
          /\ sinceEnd[c] = 0
          /\ sinceAdmit[c] > 0
          /\ chatLimits[c].age = sinceAdmit[c]
          /\ chatLimits[c].messageCount = 1

\* A message has completed successfully some time after its admission: the
\* entry of its conversation carries the time of the completion and counts
\* the admission and the completion.
C25_WitnessSuccess ==
    /\ rateLimitMs = MaxRateLimit
    /\ stats.totalProcessed = 1
    /\ \E c \in Chats :
          /\ dispLog[c] = <<1>>
          /\ sinceDone[c] = 0
          /\ sinceAdmit[c] > 0
          /\ chatLimits[c].age = 0
          /\ chatLimits[c].messageCount = 2

\* ------------------------------------------ properties of the direct mode

\* C26: in direct mode the worker makes exactly one sendMessage call for the
\* message dispatched, whatever the number of posts made inside it. When the
\* call has succeeded the response sender has been called exactly once, with
\* the conversation and the id of the message and the text returned; before
\* that, and when the call has failed, it has not been called.
C26_DirectOneSendOneResponse ==
    call = "direct" =>
        /\ sends = 1
        /\ job \in QueuedMessage
        /\ sendResult = "resolved"
              => delivered = <<[chatId |-> job.chatId,
                                messageId |-> job.messageId,
                                response |-> chunks]>>
        /\ sendResult # "resolved" => delivered = <<>>
        /\ posts >= 1
        /\ Len(errors) \in {posts - 1, posts}

\* In direct mode the second post of the send was answered, and the response
\* sender has delivered the text.
C26_Witness ==
    /\ call = "direct"
    /\ sends = 1
    /\ posts = 2
    /\ errors = <<[response |-> TRUE, status |-> 429]>>
    /\ Len(delivered) = 1
    /\ delivered[1].response = <<"Hello">>
    /\ outcome = "resolved"

\* In direct mode the send has failed after its retries, and the processing
\* has ended without a call of the response sender.
C26_WitnessFailed ==
    /\ call = "direct"
    /\ sends = 1
    /\ posts = 1 + maxRetries
    /\ sendResult = "rejected"
    /\ delivered = <<>>
    /\ wpc = "settled"

\* ------------------------------------- properties of the agent loop bound

LastMessage == history[Len(history)]

\* run has returned, and every response of the model held a tool call: the
\* first one, and the one to the follow-up prompt.
ToolCallEveryTime ==
    /\ runResult.returned
    /\ FirstAnswered
    /\ ToolCallOf(history[2]) # NoToolCall
    /\ parseToolCall(chunks) # NoToolCall

\* C28 as stated: when the model emits a tool call in every response, run
\* stops when iterations has reached maxIterations and returns the apology
\* as a normal result, with the apology appended to the history.
C28_ApologyAfterToolCalls ==
    ToolCallEveryTime
        => /\ runResult.response = Apology
           /\ runResult.iterations = maxIterations
           /\ LastMessage = [role |-> "assistant", content |-> Apology]

\* C28: when the model emits a tool call in every response, run returns
\* after its first iteration and one tool with the response to the follow-up
\* prompt as it is, appended to the history: not the apology. The apology is
\* returned only when the loop is not entered (maxIterations <= 0), as a
\* normal result with no tool run, and it is appended to the history after
\* the message of the user.
C28_ApologyOnlyWithoutLoop ==
    /\ ToolCallEveryTime
          => /\ maxIterations >= 1
             /\ runResult.response = chunks
             /\ runResult.response # Apology
             /\ runResult.iterations = 1
             /\ runResult.toolCallsCount = 1
             /\ LastMessage = [role |-> "assistant", content |-> chunks]
    /\ (runResult.returned /\ runResult.response = Apology)
          => /\ maxIterations <= 0
             /\ runResult.toolCallsCount = 0
             /\ toolRuns = 0
             /\ history = <<[role |-> "user", content |-> UserMessage],
                            [role |-> "assistant", content |-> Apology]>>
             /\ Len(delivered) = 1
             /\ delivered[1].response = Apology
             /\ sendResult = "pending"

\* With maxIterations = 5 the model called a tool that is not the
\* search_knowledge tool in both of its responses, and run has returned the
\* second one, which was delivered.
C28_Witness ==
    /\ maxIterations = DefaultMaxIterations
    /\ ToolCallEveryTime
    /\ ToolCallOf(history[2]) = "web_search"
    /\ runResult.response = <<WebSearchJson>>
    /\ sends = 2
    /\ outcome = "resolved"

\* With maxIterations = 0 run has returned the apology, which was delivered.
C28_WitnessApology ==
    /\ maxIterations = 0
    /\ runResult.returned
    /\ runResult.response = Apology
    /\ outcome = "resolved"

\* C29: for maxIterations >= 1 run returns during its first iteration: the
\* result carries iterations = 1, after a response without tool call
\* (toolCallsCount = 0) and after a tool call (toolCallsCount = 1) alike, and
\* it is never the apology of the end of run. For maxIterations <= 0 run
\* returns the apology with iterations = 0 and no completion call is made.
C29_ReturnsInFirstIteration ==
    call = "agent" =>
        /\ iterations <= 1
        /\ maxIterations >= 1
              => /\ phase # "none"
                 /\ iterations = 1
                 /\ sends >= 1
                 /\ runResult.returned
                       => /\ runResult.iterations = 1
                          /\ runResult.toolCallsCount = toolRuns
                          /\ runResult.response = chunks
                          /\ LastMessage.content = chunks
                          /\ \A i \in 1..Len(history) :
                                history[i].content # Apology
        /\ maxIterations <= 0
              => /\ runResult.returned
                 /\ runResult.response = Apology
                 /\ runResult.iterations = 0
                 /\ sends = 0
                 /\ posts = 0

\* With maxIterations = 1 run has returned in its first iteration after a
\* tool call, with the response to the follow-up prompt.
C29_Witness ==
    /\ maxIterations = 1
    /\ runResult.returned
    /\ runResult.iterations = 1
    /\ runResult.toolCallsCount = 1
    /\ runResult.response = <<"Hello">>
    /\ Len(history) = 4

\* With maxIterations = 0 the message was answered with the apology and the
\* processing has ended without a completion call.
C29_WitnessNoLoop ==
    /\ maxIterations = 0
    /\ call = "agent"
    /\ sends = 0
    /\ wpc = "settled"
    /\ delivered # <<>>

\* ------------------------------------ properties of the conversation history

\* The history stored for chat c: getHistory(c).
Stored(c) == IF cache[c].present THEN cache[c].messages ELSE <<>>

\* h holds the n last messages of log (all of them when log has fewer), in
\* the order of log.
IsRecent(h, log, n) ==
    /\ Len(h) = (IF Len(log) <= n THEN Len(log) ELSE n)
    /\ \A i \in 1..Len(h) : h[i] = log[Len(log) - Len(h) + i]

\* C30 as stated: after any sequence of addMessage calls the history stored
\* for a conversation has at most maxMessagesPerChat entries, and they are
\* the most recently added entries of that conversation, in the order in
\* which they were added.
C30_BoundedMostRecent ==
    \A c \in Chats :
        /\ Len(Stored(c)) <= maxMessagesPerChat
        /\ IsRecent(Stored(c), added[c], maxMessagesPerChat)

\* C30: after any sequence of addMessage calls the history stored for a
\* conversation has at most maxMessagesPerChat entries, and they are the most
\* recently added entries of that conversation, in the order in which they
\* were added, among those added since the cache last dropped the history of
\* the conversation: as the least recently used of more than maxChats
\* conversations, or when its ttl ran out. The cache holds at most maxChats
\* histories.
C30_BoundedRecentSinceDrop ==
    /\ \A c \in Chats :
          /\ Len(Stored(c)) <= maxMessagesPerChat
          /\ IsRecent(Stored(c), sinceDrop[c], maxMessagesPerChat)
          /\ cache[c].present <=> sinceDrop[c] # <<>>
          /\ cache[c].present <=> \E i \in 1..Len(lru) : lru[i] = c
    /\ Len(lru) <= maxChats
    /\ Cardinality({c \in Chats : cache[c].present}) = Len(lru)

\* With a limit of 2, three messages were added to a conversation, which
\* holds the second and the third.
C30_Witness ==
    /\ maxMessagesPerChat = 2
    /\ \E c \in Chats :
          /\ Len(added[c]) = 3
          /\ sinceDrop[c] = added[c]
          /\ Stored(c) = <<added[c][2], added[c][3]>>

\* A conversation whose history the cache had dropped got a message: its
\* history holds that message only.
C30_WitnessDropped ==
    \E c \in Chats :
        /\ Len(added[c]) = 2
        /\ maxMessagesPerChat = 2
        /\ Stored(c) = <<added[c][2]>>

\* ------------------------------------- properties of the history of a run

\* The roles of the entries of the history, in order.
RolesOf(h) == [i \in 1..Len(h) |-> h[i].role]

\* run has taken the tool path: its first response held a tool call.
ToolPath == FirstAnswered /\ ToolCallOf(history[2]) # NoToolCall

\* C31: within one run that takes the tool path the entries of the history
\* are only ever appended, in the order: message of the user, assistant
\* entry with the tool call, tool entry with the result of the tool,
\* assistant entry with the final text. The tool runs after the entry of the
\* tool call is appended (while it runs the history ends with that entry)
\* and before the follow-up completion call (which is made with the result
\* of the tool in the history).
C31_ToolPathHistoryOrder ==
    /\ [][ToolPath' /\ history' # history
             => /\ Len(history') > Len(history)
                /\ SubSeq(history', 1, Len(history)) = history]_vars
    /\ [](ToolPath =>
            /\ RolesOf(history)
                  = SubSeq(<<"user", "assistant", "tool", "assistant">>,
                           1, Len(history))
            /\ history[1].content = UserMessage
            /\ toolRuns = 1
            /\ phase = "tool" => Len(history) = 2 /\ sends = 2
            /\ phase = "followup"
                  => /\ Len(history) = 3
                     /\ sends = (IF ToolCallOf(history[2]) = "search_knowledge"
                                 THEN 3 ELSE 2)
            /\ Len(history) = 4
                  => /\ phase = "done"
                     /\ runResult.returned
                     /\ history[4].content = runResult.response)
    /\ [](toolRuns >= 1 => ToolPath)

\* run has returned on the tool path: the history holds the message of the
\* user, the call of web_search, its result and the final text.
C31_Witness ==
    history = <<[role |-> "user", content |-> UserMessage],
                [role |-> "assistant", content |-> <<WebSearchJson>>],
                [role |-> "tool", content |-> WebResult],
                [role |-> "assistant", content |-> <<"Hello">>]>>

\* search_knowledge is running: the history ends with the entry of its call.
C31_WitnessToolRuns ==
    /\ phase = "tool"
    /\ wpc = "stream"
    /\ Len(history) = 2
    /\ ToolCallOf(history[2]) = "search_knowledge"

\* ------------------------------------------ properties of the escalation

\* C32: in agent mode escalation evaluation is performed after every final
\* answer run produces from a completion call, on the tool path as well as
\* on the no-tool path: a result run returned after a completion call holds
\* the verdict of checkForEscalation.
C32_EvaluatedAfterEveryAnswer ==
    (runResult.returned /\ FirstAnswered) => runResult.checked

\* The calls of the response sender that carry the response run returned.
AnswerSends == {i \in 1..Len(delivered) :
                   delivered[i].response = runResult.response}

\* C33: when the result of run asks for escalation, processWithAgent ends
\* handleEscalation before it sends the answer, so an acknowledgment is sent
\* before the answer; and whatever happens inside handleEscalation (nothing
\* sent, or the send of the acknowledgment rejected) the answer goes through
\* the response sender exactly once, as the last call of the sender.
C33_AnswerOnceAfterEscalation ==
    /\ wpc = "acknowledge"
          => /\ runResult.shouldEscalate
             /\ Len(delivered) = 1
             /\ delivered[1].response = Acknowledgment
             /\ AnswerSends = {}
    /\ (runResult.returned /\ wpc # "acknowledge")
          => /\ AnswerSends = {Len(delivered)}
             /\ Len(delivered) \in {1, 2}
             /\ Len(delivered) = 2
                   => /\ runResult.shouldEscalate
                      /\ delivered[1].response = Acknowledgment
             /\ \A i \in 1..Len(delivered) :
                   /\ delivered[i].chatId = job.chatId
                   /\ delivered[i].messageId = job.messageId

\* The result asked for escalation, the acknowledgment was sent, then the
\* answer, and processWithAgent resolved.
C33_Witness ==
    /\ runResult.returned
    /\ runResult.shouldEscalate
    /\ Len(delivered) = 2
    /\ delivered[1].response = Acknowledgment
    /\ delivered[2].response = <<"Hello">>
    /\ outcome = "resolved"

\* The result asked for escalation and handleEscalation sent nothing: the
\* answer alone was sent.
C33_WitnessNoAcknowledgment ==
    /\ runResult.returned
    /\ runResult.shouldEscalate
    /\ Len(delivered) = 1
    /\ delivered[1].response = <<"Hello">>
    /\ wpc = "returned"

\* ------------------------------------------ properties of a stream error

\* C35: once the post of an attempt has resolved (the body is streamed) the
\* send makes no further attempt and no backoff, whatever the attempt: from
\* a state with the stream open the next step ends the stream or rejects the
\* send, with the attempt, the posts, the time slept and the errors of the
\* request as they were; and a rejected send is never retried. Retry is for
\* the failures of the request itself.
C35_NoRetryAfterResponse ==
    /\ [][(wpc = "stream" /\ sends' = sends)
             => /\ attempt' = attempt
                /\ posts' = posts
                /\ slept' = slept
                /\ errors' = errors
                /\ wpc' \notin {"post", "sleep"}
                /\ wpc' # "stream" => sendResult' \in {"resolved", "rejected"}]_vars
    /\ [][(wpc = "stream" /\ sendResult' = "rejected")
             => /\ outcome' = (IF call = "ingest" THEN outcome ELSE "rejected")
                /\ wpc' \in {"returned", "done"}]_vars
    /\ [](sendResult = "rejected" => wpc \notin {"post", "sleep", "stream"})

\* The first post failed with a retryable error, the second was answered,
\* and the stream errored: the send failed after two posts and one backoff.
C35_Witness ==
    /\ sendResult = "rejected"
    /\ attempt = 1
    /\ posts = 2
    /\ Len(errors) = 1
    /\ slept = calculateBackoff(0)

\* The stream of the first attempt errored: one post, no backoff.
C35_WitnessFirstAttempt ==
    /\ sendResult = "rejected"
    /\ attempt = 0
    /\ posts = 1
    /\ errors = <<>>
    /\ slept = 0

\* ------------------------------------------ properties of the counters

\* C36: message conservation. While clearChat and clearAll have not been
\* called, totalQueued = totalProcessed + totalFailed + currentQueueLength
\* + activeWorkers, and each term is what it counts: the messages enqueued,
\* those queued now and those in flight.
C36_MessageConservation ==
    ~cleared =>
        /\ stats.totalQueued = stats.totalProcessed + stats.totalFailed
                                  + stats.currentQueueLength
                                  + stats.activeWorkers
        /\ stats.currentQueueLength = SumLengths(queues, Chats)
        /\ stats.activeWorkers = Cardinality(inflight)

\* A message processed, one queued and one in flight.
C36_Witness ==
    /\ ~cleared
    /\ stats.totalProcessed >= 1
    /\ stats.currentQueueLength >= 1
    /\ stats.activeWorkers >= 1

\* A message failed, one queued and one in flight.
C36_WitnessFailed ==
    /\ ~cleared
    /\ stats.totalFailed >= 1
    /\ stats.currentQueueLength >= 1
    /\ stats.activeWorkers >= 1

\* C37: no lost wake-up. With maxConcurrency >= 1, in every state between
\* event handlers, when some queue holds a message a process call is in
\* flight or a deferred scan (a timer) is pending: something is left to
\* trigger the admission of the message.
C37_NoLostWakeup ==
    (maxConcurrency >= 1 /\ \E c \in Chats : queues[c] # <<>>)
        => \/ inflight # {}
           \/ NumTimers(timers) > 0

\* A message waits in its queue with nothing in flight: only the timer of
\* the scan that found its conversation rate limited will admit it.
C37_Witness ==
    /\ \E c \in Chats : queues[c] # <<>>
    /\ inflight = {}
    /\ NumTimers(timers) = 1

\* A message waits with no timer pending: the completion of the message in
\* flight will run the scan.
C37_WitnessInFlight ==
    /\ \E c \in Chats : queues[c] # <<>>
    /\ inflight # {}
    /\ NumTimers(timers) = 0

\* ------------------------- properties of one conversation's concurrency

\* The messages of conversation c in flight.
InFlightOf(c) == {message \in inflight : message.chatId = c}

\* The step admits a message of conversation c while an earlier message of
\* c is in flight and stays so.
AdmitsBeside(c) ==
    /\ dispLog'[c] # dispLog[c]
    /\ InFlightOf(c) \cap inflight' # {}

\* C34: two messages of one conversation can be in flight together. A
\* message is admitted beside an earlier one of its conversation only with
\* maxConcurrency >= 2 and once the rate window since the admission of the
\* earlier one has passed; the admission does not wait for the earlier one:
\* it happens at an enqueue or a timer with every message in flight left in
\* flight, or at the completion of another message; and a completion takes
\* the completed message alone out of flight, in whatever order the messages
\* were admitted.
C34_SameChatConcurrency ==
    /\ [][\A c \in Chats :
            AdmitsBeside(c)
                => /\ maxConcurrency >= 2
                   /\ lastGap'.admit >= rateLimitMs
                   /\ inflight' \ inflight
                          = {[chatId |-> c,
                              messageId |-> dispLog'[c][Len(dispLog'[c])]]}
                   /\ ~CompletionStep => inflight \subseteq inflight']_vars
    /\ [][CompletionStep => Cardinality(inflight \ inflight') = 1]_vars
    /\ [](\A c \in Chats :
            Cardinality(InFlightOf(c)) >= 2 => maxConcurrency >= 2)

\* Two messages of one conversation are in flight under a positive rate
\* window: the second was admitted while the first was being processed.
C34_Witness ==
    /\ rateLimitMs > 0
    /\ \E c \in Chats :
          /\ Cardinality(InFlightOf(c)) = 2
          /\ lastGap.admit >= rateLimitMs

\* The message admitted second has completed and the one admitted first is
\* still in flight.
C34_WitnessOvertaken ==
    \E c \in Chats :
        /\ Len(dispLog[c]) >= 2
        /\ [chatId |-> c, messageId |-> dispLog[c][1]] \in inflight
        /\ [chatId |-> c, messageId |-> dispLog[c][2]] \notin inflight

====
